---- MODULE Spec2Model ----
(***************************************************************************)
(* Permit-to-work dashboard: spreadsheet ingestion (UploadExcel and the    *)
(* Dashboard page), record filtering (applyFilters and the query built by  *)
(* usePTWRecords.fetchRecords) and the live-update hook usePTWRecords.     *)
(***************************************************************************)
EXTENDS Integers, Sequences, FiniteSets, TLC

(***************************************************************************)
(* JavaScript values.  A string is a sequence of one-character strings, so *)
(* that toLowerCase, includes and Date parsing are computed, not assumed.  *)
(***************************************************************************)
Str(s) == [t |-> "string", s |-> s]
Num(n) == [t |-> "number", n |-> n]
Undefined == [t |-> "undefined"]
Null == [t |-> "null"]

TypeOf(v) == v.t

Truthy(v) ==
    CASE v.t = "string" -> v.s # <<>>
      [] v.t = "number" -> v.n # 0
      [] OTHER -> FALSE

\* a || b
Or(a, b) == IF Truthy(a) THEN a ELSE b

UpperChars == <<"A","B","C","D","E","F","G","H","I","J","K","L","M",
                "N","O","P","Q","R","S","T","U","V","W","X","Y","Z">>
LowerChars == <<"a","b","c","d","e","f","g","h","i","j","k","l","m",
                "n","o","p","q","r","s","t","u","v","w","x","y","z">>
DigitChars == <<"0","1","2","3","4","5","6","7","8","9">>

IndexIn(seq, c) ==
    IF \E i \in DOMAIN seq : seq[i] = c
    THEN CHOOSE i \in DOMAIN seq : seq[i] = c
    ELSE 0

LowerChar(c) == IF IndexIn(UpperChars, c) # 0 THEN LowerChars[IndexIn(UpperChars, c)] ELSE c
UpperChar(c) == IF IndexIn(LowerChars, c) # 0 THEN UpperChars[IndexIn(LowerChars, c)] ELSE c

\* String.prototype.toLowerCase
toLowerCase(s) == [i \in DOMAIN s |-> LowerChar(s[i])]

\* String.prototype.includes
includes(s, sub) ==
    \E k \in 0..(Len(s) - Len(sub)) :
        \A j \in 1..Len(sub) : s[k + j] = sub[j]

\* s.charAt(0).toUpperCase() + s.slice(1)
Capitalize(s) == IF s = <<>> THEN s ELSE <<UpperChar(s[1])>> \o Tail(s)

IsDigit(c) == IndexIn(DigitChars, c) # 0
DigitVal(c) == IndexIn(DigitChars, c) - 1

\* String(n) for a non-negative integer n
RECURSIVE DigitsOf(_)
DigitsOf(n) == IF n < 10 THEN <<DigitChars[n + 1]>>
               ELSE DigitsOf(n \div 10) \o <<DigitChars[(n % 10) + 1]>>

\* String(v)
String(v) ==
    CASE v.t = "string" -> v.s
      [] v.t = "number" -> DigitsOf(v.n)
      [] OTHER -> <<"u","n","d","e","f","i","n","e","d">>

(***************************************************************************)
(* Dates.  A Date is its time value counted in days (a 31-day month grid,  *)
(* order-preserving), or NaN.  The parser accepts the date-only ISO form   *)
(* YYYY-MM-DD, the form the pipeline itself writes; every other string of  *)
(* the model is one that no engine parses.                                 *)
(***************************************************************************)
NaNDate == [nan |-> TRUE, time |-> 0]
DateAt(y, m, d) == [nan |-> FALSE, time |-> (y * 372) + ((m - 1) * 31) + (d - 1)]

isNaN(date) == date.nan

Num2(a, b) == (DigitVal(a) * 10) + DigitVal(b)

DaysInMonth(m) == IF m = 2 THEN 28 ELSE IF m \in {4, 6, 9, 11} THEN 30 ELSE 31

\* new Date(s) for a string s
DateFromString(s) ==
    IF /\ Len(s) = 10
       /\ s[5] = "-" /\ s[8] = "-"
       /\ \A i \in {1, 2, 3, 4, 6, 7, 9, 10} : IsDigit(s[i])
    THEN LET y == (Num2(s[1], s[2]) * 100) + Num2(s[3], s[4])
             m == Num2(s[6], s[7])
             d == Num2(s[9], s[10])
         IN IF m \in 1..12 /\ d \in 1..DaysInMonth(m) THEN DateAt(y, m, d) ELSE NaNDate
    ELSE NaNDate

\* new Date(v): a number is a count of milliseconds since 1970-01-01
NewDate(v) ==
    CASE v.t = "string" -> DateFromString(v.s)
      [] v.t = "number" -> DateAt(1970, 1, 1 + (v.n \div 86400000))
      [] OTHER -> NaNDate

Pad2(n) == <<DigitChars[(n \div 10) + 1], DigitChars[(n % 10) + 1]>>

\* date.toISOString().split('T')[0]
ISODate(date) ==
    LET y == date.time \div 372
        m == ((date.time % 372) \div 31) + 1
        d == (date.time % 31) + 1
    IN Pad2(y \div 100) \o Pad2(y % 100) \o <<"-">> \o Pad2(m) \o <<"-">> \o Pad2(d)

(***************************************************************************)
(* validateRecord (UploadExcel and Dashboard carry the same body).         *)
(***************************************************************************)
dayLit == <<"d","a","y">>
nightLit == <<"n","i","g","h","t">>

RequiredString(v) == Truthy(v) /\ TypeOf(v) = "string"

DayErrors(day) ==
    IF ~RequiredString(day)
    THEN <<"Day is required">>
    ELSE LET dayStr == toLowerCase(day.s)
         IN IF dayStr # dayLit /\ dayStr # nightLit /\ isNaN(NewDate(day))
            THEN <<"Day must be Day, Night, or a valid date">>
            ELSE <<>>

\* validateRecord with the status check left out
validateRecord_NoStatus(rec) ==
       (IF ~RequiredString(rec.number)
        THEN <<"Number is required and must be a string">> ELSE <<>>)
    \o (IF ~RequiredString(rec.company) THEN <<"Company is required">> ELSE <<>>)
    \o (IF ~RequiredString(rec.type) THEN <<"Type is required">> ELSE <<>>)
    \o DayErrors(rec.day)

validateRecord(rec) ==
       (IF ~RequiredString(rec.number)
        THEN <<"Number is required and must be a string">> ELSE <<>>)
    \o (IF ~RequiredString(rec.company) THEN <<"Company is required">> ELSE <<>>)
    \o (IF ~RequiredString(rec.type) THEN <<"Type is required">> ELSE <<>>)
    \o (IF ~RequiredString(rec.status) THEN <<"Status is required">> ELSE <<>>)
    \o DayErrors(rec.day)

(***************************************************************************)
(* State.                                                                  *)
(***************************************************************************)
VARIABLES
    record,     \* validateRecord: the record under validation
    errors,     \* validateRecord: the returned list of reasons
    vpc,        \* "idle" | "validated"
    records,          \* Dashboard page: the fetched in-memory snapshot
    filters,          \* Dashboard page: the filter set
    filteredRecords,  \* Dashboard page: what applyFilters selected
    queryData,        \* usePTWRecords.fetchRecords: data of the pushed-down query
    fpc,              \* which of the two filterings have run
    store,          \* backend table ptw_records: the set of stored rows
    file,           \* the spreadsheet the user uploads (its rows, or Corrupt)
    comp,           \* the component running processExcelFile
    mode,           \* 'upsert' | 'replace'
    upc,            \* position of processExcelFile
    validRecords,   \* UploadExcel: rows that passed validation
    uploadResults,  \* {success, errors} being accumulated
    bi,             \* the batch loop's i
    inflight,       \* Dashboard: rows whose upsert request is pending
    result,         \* setResult / setUploadResult: the reported result, or Null
    uploading,      \* the uploading flag
    signalled,      \* dispatchPTWUpdate was called by the current run
    refreshed,      \* Dashboard: fetchRecords was called by the current run
    runs,           \* number of uploads started
    rejected,       \* history: rows whose write the store rejected in this run
    storeAtStart,   \* history: the store when the current run started
    prev,           \* history: outcome of the previous run
    ptw_records,        \* backend table as the hook's queries see it, newest row first
    inserted,           \* number of rows other clients have inserted so far
    changes,            \* number of changes other clients have made so far
    options,            \* usePTWRecords options: filters, page, pageSize, enableRealtime
    mounted,            \* "off" | "yes" | "gone"
    hookRecords,        \* usePTWRecords: records
    loading,            \* usePTWRecords: loading
    error,              \* usePTWRecords: error
    totalCount,         \* usePTWRecords: totalCount
    realtimeSubscribed, \* usePTWRecords: realtimeSubscribed.current
    abortController,    \* usePTWRecords: abortController.current (0 is null)
    aborted,            \* the controllers whose abort() was called
    pending,            \* fetch queries in flight
    fetches,            \* number of fetchRecords calls so far
    channel,            \* the realtime channel: "none" | "joining" | "joined"
    events,             \* change notifications the store has sent and may (re)deliver
    lastApplied,        \* history: the fetch whose data setRecords took last
    answeredOk,         \* history: the fetches the backend answered without an error
    lastEvent,          \* history: the last notification handled, and the list before it
    latest,             \* history: what the backend answers to the fetch started last
    emitted,            \* number of 'ptw-records-updated' events dispatched so far
    subscriptions,      \* number of channels of the view the realtime client holds
    closing,            \* removed channels whose subscribe callback is still to report CLOSED
    toggles,            \* number of changes of options.enableRealtime so far
    call,               \* a call of one of the pure functions: its name, argument, and done
    ret                 \* what the call returned

validateVars == <<record, errors, vpc>>
filterVars == <<records, filters, filteredRecords, queryData, fpc>>
uploadVars == <<store, file, comp, mode, upc, validRecords, uploadResults, bi, inflight,
                result, uploading, signalled, refreshed, runs, rejected, storeAtStart, prev>>
hookVars == <<ptw_records, inserted, changes, options, mounted, hookRecords, loading, error, totalCount,
              realtimeSubscribed, abortController, aborted, pending, fetches, channel,
              events, lastApplied, answeredOk, lastEvent, latest, emitted, subscriptions,
              closing, toggles>>
callVars == <<call, ret>>
vars == <<validateVars, filterVars, uploadVars, hookVars, callVars>>

CallIdle == call = Null /\ ret = Null
ValidateIdle == record = Undefined /\ errors = <<>> /\ vpc = "off"
FilterIdle ==
    /\ records = <<>> /\ filters = Undefined /\ filteredRecords = <<>>
    /\ queryData = <<>> /\ fpc = {}
UploadIdle ==
    /\ store = {} /\ file = <<>> /\ comp = "none" /\ mode = "upsert" /\ upc = "off"
    /\ validRecords = <<>> /\ uploadResults = [success |-> 0, errors |-> <<>>]
    /\ bi = 0 /\ inflight = {} /\ result = Null /\ uploading = FALSE
    /\ signalled = FALSE /\ refreshed = FALSE /\ runs = 0 /\ rejected = {}
    /\ storeAtStart = {} /\ prev = Null
HookIdle ==
    /\ ptw_records = <<>> /\ inserted = 0 /\ changes = 0 /\ options = Null /\ mounted = "off"
    /\ hookRecords = <<>> /\ loading = TRUE /\ error = Null /\ totalCount = 0
    /\ realtimeSubscribed = FALSE /\ abortController = 0 /\ aborted = {}
    /\ pending = {} /\ fetches = 0 /\ channel = "none" /\ events = {}
    /\ lastApplied = 0 /\ answeredOk = {} /\ lastEvent = Null /\ latest = Null
    /\ emitted = 0 /\ subscriptions = 0 /\ closing = 0 /\ toggles = 0

(***************************************************************************)
(* SpecValidate: validateRecord applied to every record of a bounded set.  *)
(***************************************************************************)
S_empty == <<>>
S_x == <<"x">>
S_Day == <<"D","a","y">>
S_NIGHT == <<"N","I","G","H","T">>
S_Night == <<"N","i","g","h","t">>
S_date1 == <<"2","0","2","4","-","0","1","-","1","5">>
S_badMonth == <<"2","0","2","4","-","1","3","-","0","1">>
S_soon == <<"s","o","o","n">>

FieldInputs == {Undefined, Str(S_empty), Str(S_x), Num(7)}
DayInputs == {Undefined, Str(S_empty), Num(7), Str(S_Day), Str(S_NIGHT), Str(nightLit),
              Str(S_date1), Str(S_badMonth), Str(S_soon)}

ValidateInit ==
    /\ record \in [number : FieldInputs, company : FieldInputs, type : FieldInputs,
                    status : FieldInputs, day : DayInputs]
    /\ errors = <<>>
    /\ vpc = "idle"
    /\ FilterIdle
    /\ UploadIdle
    /\ HookIdle
    /\ CallIdle

Validate ==
    /\ vpc = "idle"
    /\ errors' = validateRecord(record)
    /\ vpc' = "validated"
    /\ UNCHANGED <<record, filterVars, uploadVars, hookVars, callVars>>

ValidateNext == Validate

SpecValidate == ValidateInit /\ [][ValidateNext]_vars

(***************************************************************************)
(* C8: validateRecord returns no errors exactly for records whose number,  *)
(* company, type and status are non-empty strings and whose day is "day"   *)
(* or "night" in any letter case or a parseable date string; otherwise it  *)
(* returns one reason per failing field.                                   *)
(***************************************************************************)
NonEmptyString(v) == v.t = "string" /\ Len(v.s) > 0

\* s spells word in some mix of upper and lower case
AnyCase(s, word) ==
    /\ Len(s) = Len(word)
    /\ \A i \in 1..Len(word) : s[i] \in {word[i], UpperChars[IndexIn(LowerChars, word[i])]}

DayAccepted(v) ==
    /\ NonEmptyString(v)
    /\ \/ AnyCase(v.s, dayLit)
       \/ AnyCase(v.s, nightLit)
       \/ ~isNaN(DateFromString(v.s))

FailingFields(r) ==
    {f \in {"number", "company", "type", "status"} : ~NonEmptyString(r[f])}
        \cup (IF DayAccepted(r.day) THEN {} ELSE {"day"})

C8_ValidateExact ==
    vpc = "validated" =>
        /\ (errors = <<>>) <=> (FailingFields(record) = {})
        /\ Len(errors) = Cardinality(FailingFields(record))

C8_Witness ==
    /\ vpc = "validated"
    /\ record.day = Str(S_NIGHT)
    /\ record.status = Str(S_x)
    /\ errors = <<>>

(***************************************************************************)
(* Record Query/Filter Layer.                                              *)
(* Dashboard.applyFilters filters the in-memory snapshot; fetchRecords of  *)
(* usePTWRecords turns a filter set into query predicates that the backing *)
(* store evaluates.                                                        *)
(***************************************************************************)
RecordFields == <<"id", "number", "description", "company", "location", "type",
                  "project", "owner", "day", "status", "created_at">>

\* Object.values(record).some(value => String(value).toLowerCase().includes(searchLower))
SearchMatchesClient(rec, searchLower) ==
    \E i \in DOMAIN RecordFields : includes(toLowerCase(rec[RecordFields[i]]), searchLower)

\* return !isNaN(recordDate.getTime()) && recordDate >= filters.dateFrom
\* (new Date never throws, so the catch branch is never taken)
DateFromKeeps(rec, dateFrom) ==
    LET recordDate == DateFromString(rec.day)
    IN ~isNaN(recordDate) /\ recordDate.time >= dateFrom.time

\* return !isNaN(recordDate.getTime()) && recordDate <= filters.dateTo
DateToKeeps(rec, dateTo) ==
    LET recordDate == DateFromString(rec.day)
    IN ~isNaN(recordDate) /\ recordDate.time <= dateTo.time

ClientKeeps(rec, fs) ==
    /\ (fs.search # <<>>) => SearchMatchesClient(rec, toLowerCase(fs.search))
    /\ (fs.company # <<>>) => rec.company = fs.company
    /\ (fs.status # <<>>) => rec.status = fs.status
    /\ (fs.type # <<>>) => rec.type = fs.type
    /\ (fs.dateFrom # Null) => DateFromKeeps(rec, fs.dateFrom)
    /\ (fs.dateTo # Null) => DateToKeeps(rec, fs.dateTo)

applyFilters(recs, fs) == SelectSeq(recs, LAMBDA rec : ClientKeeps(rec, fs))

(***************************************************************************)
(* The query predicates fetchRecords builds, and their evaluation by the   *)
(* store: ilike is a case-insensitive pattern match, gte/lte on the text   *)
(* column day compare strings in code-point order.                         *)
(***************************************************************************)
CharOrder == <<"-">> \o DigitChars \o UpperChars \o LowerChars

RECURSIVE StrLE(_, _)
StrLE(a, b) ==
    IF a = <<>> THEN TRUE
    ELSE IF b = <<>> THEN FALSE
    ELSE IF a[1] = b[1] THEN StrLE(Tail(a), Tail(b))
    ELSE IndexIn(CharOrder, a[1]) < IndexIn(CharOrder, b[1])

\* column ILIKE '%value%'
ilike(text, value) == includes(toLowerCase(text), toLowerCase(value))

SearchColumns == {"description", "number", "company", "location", "owner"}

\* one predicate per entry of options.filters that is not undefined, null or ''
QueryPredicates(hf) ==
       (IF hf.search # <<>> THEN {[op |-> "or_ilike", cols |-> SearchColumns, val |-> hf.search]}
        ELSE {})
  \cup {[op |-> "ilike", col |-> k, val |-> hf[k]] :
            k \in {c \in {"company", "status", "type"} : hf[c] # <<>>}}
  \cup (IF hf.dateRange.from # <<>>
        THEN {[op |-> "gte", col |-> "day", val |-> hf.dateRange.from]} ELSE {})
  \cup (IF hf.dateRange.to # <<>>
        THEN {[op |-> "lte", col |-> "day", val |-> hf.dateRange.to]} ELSE {})

RowSatisfies(row, p) ==
    CASE p.op = "or_ilike" -> \E c \in p.cols : ilike(row[c], p.val)
      [] p.op = "ilike" -> ilike(row[p.col], p.val)
      [] p.op = "gte" -> StrLE(p.val, row[p.col])
      [] p.op = "lte" -> StrLE(row[p.col], p.val)

\* the rows of the table (in created_at order) that satisfy every predicate
RunQuery(table, preds) ==
    SelectSeq(table, LAMBDA row : \A p \in preds : RowSatisfies(row, p))

\* the same filter set in the shape options.filters of usePTWRecords takes
HookFilters(fs) ==
    [search |-> fs.search, company |-> fs.company, status |-> fs.status, type |-> fs.type,
     dateRange |-> [from |-> IF fs.dateFrom = Null THEN <<>> ELSE ISODate(fs.dateFrom),
                    to |-> IF fs.dateTo = Null THEN <<>> ELSE ISODate(fs.dateTo)]]

(***************************************************************************)
(* SpecFilter: one snapshot and one filter set; the page filters the       *)
(* snapshot and the hook queries the same rows with the same filters.      *)
(***************************************************************************)
MaxSnapshot == 2

PTW(id, number, description, company, location, type, project, owner, day, status, created) ==
    [id |-> id, number |-> number, description |-> description, company |-> company,
     location |-> location, type |-> type, project |-> project, owner |-> owner,
     day |-> day, status |-> status, created_at |-> created]

S_feb01 == <<"2","0","2","4","-","0","2","-","0","1">>
S_feb20 == <<"2","0","2","4","-","0","2","-","2","0">>
S_mar10 == <<"2","0","2","4","-","0","3","-","1","0">>

\* createdAt strings order the samples, newest first
Sample1 == PTW(<<"1">>, <<"P","1">>, <<"f","i","x">>, <<"A","B">>, <<"N">>, <<"H">>,
               <<"z">>, <<"A","l">>, S_Day, <<"O","p","e","n">>, <<"t","4">>)
Sample2 == PTW(<<"2">>, <<"P","2">>, <<"c","u","t">>, <<"A","B","C">>, <<"S">>, <<"H","N">>,
               <<"q">>, <<"B","o">>, S_feb20, <<"o","p","e","n">>, <<"t","3">>)
Sample3 == PTW(<<"3">>, <<"P","3">>, <<"d","i","g">>, <<"A","B">>, <<"N">>, <<"H">>,
               <<"z">>, <<"C","y">>, S_date1, <<"O","p","e","n">>, <<"t","2">>)
Sample4 == PTW(<<"4">>, <<"P","4">>, <<"F","I","X">>, <<"X","Y">>, <<"E">>, <<"C">>,
               <<"q">>, <<"D","i">>, S_mar10, <<"H","o","l","d">>, <<"t","1">>)
Samples == <<Sample1, Sample2, Sample3, Sample4>>

\* the sub-lists of Samples with at most MaxSnapshot rows, in created_at order
Snapshots ==
    {[i \in 1..Cardinality(pick) |->
         Samples[CHOOSE k \in pick : Cardinality({j \in pick : j < k}) = i - 1]] :
       pick \in {x \in SUBSET (DOMAIN Samples) : Cardinality(x) <= MaxSnapshot}}

FilterSets ==
    [search : {<<>>, <<"f","i">>, <<"z">>},
     company : {<<>>, <<"A","B">>},
     status : {<<>>, <<"O","p","e","n">>},
     type : {<<>>, <<"H">>},
     dateFrom : {Null, DateFromString(S_feb01)},
     dateTo : {Null, DateFromString(S_mar10)}]

FilterInit ==
    /\ records \in Snapshots
    /\ filters \in FilterSets
    /\ filteredRecords = records
    /\ queryData = <<>>
    /\ fpc = {}
    /\ ValidateIdle
    /\ UploadIdle
    /\ HookIdle
    /\ CallIdle

\* useEffect(() => applyFilters(), [records, filters])
ApplyFilters ==
    /\ filters # Undefined
    /\ "applied" \notin fpc
    /\ filteredRecords' = applyFilters(records, filters)
    /\ fpc' = fpc \cup {"applied"}
    /\ UNCHANGED <<records, filters, queryData, validateVars, uploadVars, hookVars, callVars>>

\* fetchRecords with options.filters = HookFilters(filters), against the same rows
FetchFiltered ==
    /\ filters # Undefined
    /\ "fetched" \notin fpc
    /\ queryData' = RunQuery(records, QueryPredicates(HookFilters(filters)))
    /\ fpc' = fpc \cup {"fetched"}
    /\ UNCHANGED <<records, filters, filteredRecords, validateVars, uploadVars, hookVars, callVars>>

FilterNext == ApplyFilters \/ FetchFiltered

SpecFilter == FilterInit /\ [][FilterNext]_vars

(***************************************************************************)
(* C9: for every snapshot and filter set, applyFilters and the pushed-down *)
(* query of fetchRecords select the same records.                          *)
(***************************************************************************)
C9_FilterEquivalence ==
    fpc = {"applied", "fetched"} => filteredRecords = queryData

(***************************************************************************)
(* C10: a date-range filter never excludes a record whose day does not     *)
(* parse as a date: with only date filters set, every such record of the   *)
(* snapshot is among the filtered records.                                 *)
(***************************************************************************)
OnlyDateFilters(fs) ==
    /\ fs.search = <<>> /\ fs.company = <<>> /\ fs.status = <<>> /\ fs.type = <<>>
    /\ (fs.dateFrom # Null \/ fs.dateTo # Null)

InSeq(x, seq) == \E i \in DOMAIN seq : seq[i] = x

C10_UnparseableDayPasses ==
    ("applied" \in fpc /\ OnlyDateFilters(filters)) =>
        \A i \in DOMAIN records :
            isNaN(DateFromString(records[i].day)) => InSeq(records[i], filteredRecords)

(***************************************************************************)
(* C11: filters combine with AND and an empty filter value constrains      *)
(* nothing: with only company, status and type set, both the page's filter *)
(* and the hook's query return exactly the records that equal (===) every  *)
(* non-empty filter value, and the whole snapshot when all are empty.      *)
(***************************************************************************)
OnlyFieldFilters(fs) == fs.search = <<>> /\ fs.dateFrom = Null /\ fs.dateTo = Null

ExactMatches(recs, fs) ==
    SelectSeq(recs, LAMBDA rec :
        \A k \in {"company", "status", "type"} : fs[k] # <<>> => rec[k] = fs[k])

C11_FilterComposition ==
    (fpc = {"applied", "fetched"} /\ OnlyFieldFilters(filters)) =>
        /\ filteredRecords = ExactMatches(records, filters)
        /\ queryData = ExactMatches(records, filters)

(***************************************************************************)
(* Spreadsheet Ingestion Pipeline.                                         *)
(* A spreadsheet row is a function from header names to cell values; a     *)
(* header the row lacks reads as undefined.                                *)
(***************************************************************************)
Get(row, key) == IF key \in DOMAIN row THEN row[key] ELSE Undefined

\* row[k1] || row[k2] || ... || ''
RECURSIVE FirstTruthy(_, _)
FirstTruthy(row, keys) ==
    IF keys = <<>> THEN Str(<<>>)
    ELSE Or(Get(row, Head(keys)), FirstTruthy(row, Tail(keys)))

\* the day normalization with the token stored as typed
NormalizeDay_TokenAsTyped(dayValue) ==
    IF ~Truthy(dayValue) THEN <<>>
    ELSE LET dayStr == toLowerCase(String(dayValue))
         IN IF dayStr = dayLit \/ dayStr = nightLit
            THEN String(dayValue)
            ELSE LET date == NewDate(dayValue)
                 IN IF ~isNaN(date) THEN ISODate(date) ELSE String(dayValue)

\* the day normalization of processExcelFile
NormalizeDay(dayValue) ==
    IF ~Truthy(dayValue) THEN <<>>
    ELSE LET dayStr == toLowerCase(String(dayValue))
         IN IF dayStr = dayLit \/ dayStr = nightLit
            THEN Capitalize(dayStr)
            ELSE LET date == NewDate(dayValue)
                 IN IF ~isNaN(date) THEN ISODate(date) ELSE String(dayValue)

UploadExcelAliases ==
    [number |-> <<"Number", "number">>, description |-> <<"Description", "description">>,
     company |-> <<"Company", "company">>, location |-> <<"Location", "location">>,
     type |-> <<"Type", "type">>, project |-> <<"Project", "project">>,
     owner |-> <<"Owner", "owner">>, status |-> <<"Status", "status">>]

DashboardAliases ==
    [number |-> <<"Number", "number", "PTW No">>,
     description |-> <<"Description", "description", "Work">>,
     company |-> <<"Company", "company", "Contractor">>,
     location |-> <<"Location", "location", "Area">>,
     type |-> <<"Type", "type", "Work Type">>, project |-> <<"Project", "project">>,
     owner |-> <<"Owner", "owner", "Permit Owner">>, status |-> <<"Status", "status">>]

\* the record processExcelFile builds from a row
TransformRow(row, aliases) ==
    [number |-> Str(String(FirstTruthy(row, aliases.number))),
     description |-> Str(String(FirstTruthy(row, aliases.description))),
     company |-> Str(String(FirstTruthy(row, aliases.company))),
     location |-> Str(String(FirstTruthy(row, aliases.location))),
     type |-> Str(String(FirstTruthy(row, aliases.type))),
     project |-> Str(String(FirstTruthy(row, aliases.project))),
     owner |-> Str(String(FirstTruthy(row, aliases.owner))),
     day |-> Str(NormalizeDay(Or(Get(row, "Day"), Get(row, "day")))),
     status |-> Str(String(FirstTruthy(row, aliases.status)))]

(***************************************************************************)
(* The spreadsheet rows of the model.                                      *)
(***************************************************************************)
S_P1 == <<"P","1">>
S_P9 == <<"P","9">>
S_AB == <<"A","B">>
S_XY == <<"X","Y">>
S_H == <<"H">>
S_Open == <<"O","p","e","n">>

RowA == [Number |-> Str(S_P1), Company |-> Str(S_AB), Type |-> Str(S_H),
         Status |-> Str(S_Open), Day |-> Str(<<"d","a","y">>)]
\* the number of RowA with other data
RowA2 == [Number |-> Str(S_P1), Company |-> Str(S_XY), Type |-> Str(S_H),
          Status |-> Str(S_Open), Day |-> Str(S_date1)]
\* a numeric cell as number, lower-case headers
RowB == [number |-> Num(7), company |-> Str(S_XY), type |-> Str(<<"C">>),
         status |-> Str(S_Open), day |-> Str(S_NIGHT)]
\* no Day cell: fails validation
RowBad == [Number |-> Str(<<"P","3">>), Company |-> Str(S_AB), Type |-> Str(S_H),
           Status |-> Str(S_Open)]
RowOld == [Number |-> Str(S_P9), Company |-> Str(S_AB), Type |-> Str(S_H),
           Status |-> Str(S_Open), Day |-> Str(S_Day)]

\* the rows by name; a spreadsheet is a sequence of row names
Sheet == [A |-> RowA, A2 |-> RowA2, B |-> RowB, Bad |-> RowBad, Old |-> RowOld]
SampleRows == {"A", "A2", "B", "Bad"}

\* the record a component builds from a row, and what validateRecord says of it
Ingest(row, aliases) ==
    [record |-> TransformRow(row, aliases),
     errors |-> validateRecord(TransformRow(row, aliases))]

\* (f @@ <<>> is f, tabulated)
IngestAll(aliases) == [name \in DOMAIN Sheet |-> Ingest(Sheet[name], aliases)] @@ <<>>

Aliases == [UploadExcel |-> UploadExcelAliases, Dashboard |-> DashboardAliases]

\* tabulated once for the rows of the model
Ingested == [c \in DOMAIN Aliases |-> IngestAll(Aliases[c])] @@ <<>>

RecordOf(c, name) == Ingested[c][name].record
ErrorsOf(c, name) == Ingested[c][name].errors


SortedSeq(S) ==
    [i \in 1..Cardinality(S) |-> CHOOSE k \in S : Cardinality({j \in S : j < k}) = i - 1]

\* indices (1-based) of the rows of json that pass component c's validation
ValidIdx(json, c) == {k \in DOMAIN json : ErrorsOf(c, json[k]) = <<>>}

\* an errors entry that carries the index of the row instead of index + 2
ValidationError_RowIsIndex(json, c, k) ==
    [row |-> k - 1, error |-> ErrorsOf(c, json[k]), data |-> RecordOf(c, json[k])]

\* the errors entry of a row that fails validation; its row number is index + 2
ValidationError(json, c, k) ==
    [row |-> k + 1, error |-> ErrorsOf(c, json[k]), data |-> RecordOf(c, json[k])]

(***************************************************************************)
(* The backing store as the pipeline uses it: number is the conflict key   *)
(* of upsert, so no two stored rows share a number.                        *)
(***************************************************************************)
\* .upsert(record, { onConflict: 'number' })
UpsertRow(st, rec) == {r \in st : r.number # rec.number} \cup {rec}

RECURSIVE UpsertAll(_, _)
\* .upsert(batch, { onConflict: 'number' })
UpsertAll(st, recs) ==
    IF recs = <<>> THEN st ELSE UpsertAll(UpsertRow(st, Head(recs)), Tail(recs))

\* a delete that removes nothing
DeleteAll_KeepsRows(st) == st

\* .delete().neq('id', '')
DeleteAll(st) == {}

Range(seq) == {seq[i] : i \in DOMAIN seq}

\* .upsert(batch) names the same conflict key twice: the statement cannot update a row twice
BatchConflict(recs) ==
    \E i, j \in DOMAIN recs : i # j /\ recs[i].number = recs[j].number

\* .insert(validRecords) violates the unique key
InsertConflict(st, recs) ==
    \/ \E i, j \in DOMAIN recs : i # j /\ recs[i].number = recs[j].number
    \/ \E i \in DOMAIN recs : \E r \in st : r.number = recs[i].number

\* .insert(validRecords)
InsertAll(st, recs) == st \cup Range(recs)

(***************************************************************************)
(* SpecUpload: one spreadsheet, uploaded up to MaxRuns times through       *)
(* UploadExcel (upsert or replace) or through the Dashboard page (upsert). *)
(* Each request to the store is answered with success or with an error.    *)
(* BatchSize stands for batchSize (50 in both components).                 *)
(***************************************************************************)
BatchSize == 2
MaxRows == 3
MaxRuns == 2

NoResults == [success |-> 0, errors |-> <<>>]

Min(a, b) == IF a < b THEN a ELSE b

\* indices of jsonData.slice(i, i + batchSize)
BatchIdx(len, i) == {k \in 1..len : i < k /\ k <= i + BatchSize}

\* outcome of the run that just ended, kept when the next one starts
RunHistory ==
    /\ prev' = IF upc = "idle" THEN Null
               ELSE [comp |-> comp, mode |-> mode, store |-> store,
                     clean |-> (upc = "done" /\ rejected = {})]
    /\ storeAtStart' = store
    /\ rejected' = {}

\* setResult(uploadResults); dispatchPTWUpdate() when success > 0; finally
UFinish(res) ==
    /\ uploadResults' = res
    /\ result' = res
    /\ signalled' = (res.success > 0)
    /\ upc' = "done"
    /\ uploading' = FALSE

\* the outer catch of processExcelFile: a toast, no result; finally
RunFails(res) ==
    /\ uploadResults' = res
    /\ upc' = "failed"
    /\ uploading' = FALSE
    /\ UNCHANGED <<result, signalled>>

\* UploadExcel.processExcelFile up to its first request to the store
UploadExcelStart(m) ==
    /\ upc \in {"idle", "done", "failed"}
    /\ runs < MaxRuns
    /\ runs' = runs + 1
    /\ comp' = "UploadExcel"
    /\ mode' = m
    /\ RunHistory
    /\ bi' = 0
    /\ IF ~file.ok
       THEN /\ validRecords' = <<>>
            /\ uploadResults' = NoResults
            /\ result' = Null
            /\ signalled' = FALSE
            /\ upc' = "failed"
            /\ uploading' = FALSE
       ELSE LET json == file.rows
                valid == SortedSeq(ValidIdx(json, "UploadExcel"))
                invalid == SortedSeq(DOMAIN json \ ValidIdx(json, "UploadExcel"))
                res == [success |-> 0,
                        errors |-> [j \in DOMAIN invalid |->
                                      ValidationError(json, "UploadExcel", invalid[j])]]
            IN /\ validRecords' =
                      [j \in DOMAIN valid |-> RecordOf("UploadExcel", json[valid[j]])]
               /\ IF valid = <<>>
                  THEN UFinish(res)
                  ELSE /\ uploadResults' = res
                       /\ result' = Null
                       /\ signalled' = FALSE
                       /\ uploading' = TRUE
                       /\ upc' = IF m = "replace" THEN "delete" ELSE "batch"
    /\ UNCHANGED <<store, file, inflight, refreshed>>

\* replace: the answer to .delete().neq('id', '')
UDeleteAnswer(ok) ==
    /\ upc = "delete"
    /\ IF ok
       THEN /\ store' = DeleteAll(store)
            /\ upc' = "insert"
            /\ UNCHANGED <<uploadResults, result, signalled, uploading>>
       ELSE /\ RunFails(uploadResults)
            /\ UNCHANGED store
    /\ UNCHANGED <<file, comp, mode, validRecords, bi, inflight, refreshed, runs,
                   rejected, storeAtStart, prev>>

\* replace: the answer to .insert(validRecords)
UInsertAnswer(ok) ==
    /\ upc = "insert"
    /\ IF ok /\ ~InsertConflict(store, validRecords)
       THEN /\ store' = InsertAll(store, validRecords)
            /\ UFinish([uploadResults EXCEPT !.success = Len(validRecords)])
       ELSE /\ RunFails(uploadResults)
            /\ UNCHANGED store
    /\ UNCHANGED <<file, comp, mode, validRecords, bi, inflight, refreshed, runs,
                   rejected, storeAtStart, prev>>

\* upsert: the store accepts the batch at i
UBatchAccepted ==
    /\ upc = "batch"
    /\ LET batch == SubSeq(validRecords, bi + 1, Min(bi + BatchSize, Len(validRecords)))
           res == [uploadResults EXCEPT !.success = @ + Len(batch)]
       IN /\ ~BatchConflict(batch)
          /\ store' = UpsertAll(store, batch)
          /\ bi' = bi + BatchSize
          /\ IF bi + BatchSize < Len(validRecords)
             THEN /\ uploadResults' = res
                  /\ UNCHANGED <<upc, result, signalled, uploading>>
             ELSE UFinish(res)
    /\ UNCHANGED <<file, comp, mode, validRecords, inflight, refreshed, runs,
                   rejected, storeAtStart, prev>>

\* upsert: the store rejects row b of the batch at i, and with it the request
UBatchRejected(b) ==
    /\ upc = "batch"
    /\ b \in BatchIdx(Len(validRecords), bi)
    /\ rejected' = rejected \cup {SortedSeq(ValidIdx(file.rows, "UploadExcel"))[b]}
    /\ RunFails(uploadResults)
    /\ UNCHANGED <<store, file, comp, mode, validRecords, bi, inflight, refreshed, runs,
                   storeAtStart, prev>>

\* Dashboard: setUploadResult(uploadResults); fetchRecords() when success > 0; finally
DFinish(res) ==
    /\ uploadResults' = res
    /\ result' = res
    /\ refreshed' = (res.success > 0)
    /\ upc' = "done"
    /\ uploading' = FALSE

\* a loop that sends every remaining row at once, without batches
DAdvance_AllAtOnce(json, i, res) ==
    [fin |-> {k \in ValidIdx(json, "Dashboard") : k > i} = {}, i |-> i, res |-> res,
     pend |-> {k \in ValidIdx(json, "Dashboard") : k > i}]

\* Dashboard: the batch loop from index i on, up to the next batch that has a request
\* pending: rows failing validation are pushed to errors, the others are sent
RECURSIVE DAdvance(_, _, _)
DAdvance(json, i, res) ==
    IF i >= Len(json)
    THEN [fin |-> TRUE, i |-> i, res |-> res, pend |-> {}]
    ELSE LET batch == BatchIdx(Len(json), i)
             ok == batch \cap ValidIdx(json, "Dashboard")
             bad == SortedSeq(batch \ ok)
             res2 == [res EXCEPT !.errors =
                         @ \o [j \in DOMAIN bad |->
                                 ValidationError(json, "Dashboard", bad[j])]]
         IN IF ok = {}
            THEN DAdvance(json, i + BatchSize, res2)
            ELSE [fin |-> FALSE, i |-> i, res |-> res2, pend |-> ok]

DContinue(step) ==
    /\ bi' = step.i
    /\ inflight' = step.pend
    /\ IF step.fin
       THEN DFinish(step.res)
       ELSE /\ uploadResults' = step.res
            /\ upc' = "dwrites"
            /\ uploading' = TRUE
            /\ UNCHANGED <<result, refreshed>>

\* Dashboard.processExcelFile up to its first pending request
DashboardStart ==
    /\ upc \in {"idle", "done", "failed"}
    /\ runs < MaxRuns
    /\ runs' = runs + 1
    /\ comp' = "Dashboard"
    /\ mode' = "upsert"
    /\ RunHistory
    /\ IF ~file.ok
       THEN /\ uploadResults' = NoResults
            /\ result' = Null
            /\ refreshed' = FALSE
            /\ upc' = "failed"
            /\ uploading' = FALSE
            /\ bi' = 0
            /\ inflight' = {}
       ELSE /\ result' = Null
            /\ LET step == DAdvance(file.rows, 0, NoResults)
               IN /\ bi' = step.i
                  /\ inflight' = step.pend
                  /\ uploadResults' = step.res
                  /\ IF step.fin
                     THEN /\ result' = step.res /\ refreshed' = FALSE
                          /\ upc' = "done" /\ uploading' = FALSE
                     ELSE /\ result' = Null /\ refreshed' = FALSE
                          /\ upc' = "dwrites" /\ uploading' = TRUE
    /\ signalled' = FALSE
    /\ validRecords' = <<>>
    /\ UNCHANGED <<store, file>>

\* Dashboard: the upsert of row k settles; when it is the last of its batch the loop goes on
DWriteSettles(k, ok) ==
    /\ upc = "dwrites"
    /\ k \in inflight
    /\ LET res == IF ok
                  THEN [uploadResults EXCEPT !.success = @ + 1]
                  ELSE [uploadResults EXCEPT !.errors =
                           Append(@, [row |-> k + 1, error |-> <<"rejected by the store">>,
                                      data |-> Sheet[file.rows[k]]])]
       IN /\ store' = IF ok THEN UpsertRow(store, RecordOf("Dashboard", file.rows[k]))
                      ELSE store
          /\ rejected' = IF ok THEN rejected ELSE rejected \cup {k}
          /\ IF inflight = {k}
             THEN DContinue(DAdvance(file.rows, bi + BatchSize, res))
             ELSE /\ uploadResults' = res
                  /\ inflight' = inflight \ {k}
                  /\ UNCHANGED <<bi, upc, uploading, result, refreshed>>
    /\ UNCHANGED <<file, comp, mode, validRecords, signalled, runs, storeAtStart, prev>>

(***************************************************************************)
(* The uploaded spreadsheets and the stores they meet.                     *)
(***************************************************************************)
RECURSIVE SeqsUpTo(_, _)
SeqsUpTo(S, n) ==
    IF n = 0 THEN {<<>>}
    ELSE SeqsUpTo(S, n - 1) \cup {Append(q, x) : q \in {p \in SeqsUpTo(S, n - 1) : Len(p) = n - 1}, x \in S}

Files == {[ok |-> TRUE, rows |-> q] : q \in SeqsUpTo(SampleRows, MaxRows)}
            \cup {[ok |-> FALSE, rows |-> <<>>]}

InitialStores ==
    {{}, {RecordOf("UploadExcel", "Old")},
     {RecordOf("UploadExcel", "Old"), RecordOf("UploadExcel", "A2")}}

UploadInit ==
    /\ store \in InitialStores
    /\ file \in Files
    /\ comp = "none" /\ mode = "upsert" /\ upc = "idle"
    /\ validRecords = <<>> /\ uploadResults = NoResults
    /\ bi = 0 /\ inflight = {} /\ result = Null /\ uploading = FALSE
    /\ signalled = FALSE /\ refreshed = FALSE /\ runs = 0 /\ rejected = {}
    /\ storeAtStart = store /\ prev = Null
    /\ ValidateIdle
    /\ FilterIdle
    /\ HookIdle
    /\ CallIdle

UploadNext ==
    \/ \E m \in {"upsert", "replace"} : UploadExcelStart(m) /\ UNCHANGED <<validateVars, filterVars, hookVars, callVars>>
    \/ \E ok \in BOOLEAN : UDeleteAnswer(ok) /\ UNCHANGED <<validateVars, filterVars, hookVars, callVars>>
    \/ \E ok \in BOOLEAN : UInsertAnswer(ok) /\ UNCHANGED <<validateVars, filterVars, hookVars, callVars>>
    \/ UBatchAccepted /\ UNCHANGED <<validateVars, filterVars, hookVars, callVars>>
    \/ \E b \in 1..MaxRows : UBatchRejected(b) /\ UNCHANGED <<validateVars, filterVars, hookVars, callVars>>
    \/ DashboardStart /\ UNCHANGED <<validateVars, filterVars, hookVars, callVars>>
    \/ \E k \in 1..MaxRows, ok \in BOOLEAN : DWriteSettles(k, ok) /\ UNCHANGED <<validateVars, filterVars, hookVars, callVars>>

SpecUpload == UploadInit /\ [][UploadNext]_vars

RunEnded == upc \in {"done", "failed"}

\* rows of the file that passed validation and whose write the store did not reject
AcceptedIdx == ValidIdx(file.rows, comp) \ rejected

(***************************************************************************)
(* C1: in upsert mode a write failure of one row never aborts the run, and *)
(* every other valid row of the upload is written and counted in the       *)
(* success count of the reported result.                                   *)
(***************************************************************************)
C1_RowFailureIsolated ==
    (RunEnded /\ mode = "upsert" /\ file.ok) =>
        /\ upc = "done"
        /\ result # Null
        /\ \A k \in AcceptedIdx :
              \E r \in store : r.number = RecordOf(comp, file.rows[k]).number
        /\ result.success = Cardinality(AcceptedIdx)

(***************************************************************************)
(* C2: a replace run ends either with the store holding exactly the        *)
(* uploaded valid rows, or with a zero success count and the store as it   *)
(* was before the run.                                                     *)
(***************************************************************************)
C2_ReplaceAllOrNothing ==
    (RunEnded /\ mode = "replace") =>
        \/ /\ upc = "done"
           /\ store = Range(validRecords)
           /\ result.success = Len(validRecords)
        \/ /\ uploadResults.success = 0
           /\ store = storeAtStart

(***************************************************************************)
(* C3: after a replace upload that succeeded, the store holds exactly the  *)
(* valid rows of that upload, whatever it held before.  A replace upload   *)
(* succeeded when it reports a success count above zero.                   *)
(***************************************************************************)
ReplaceSucceeded == upc = "done" /\ mode = "replace" /\ result.success > 0

C4_UpsertIdempotent ==
    (/\ upc = "done" /\ mode = "upsert" /\ rejected = {}
     /\ prev # Null /\ prev.comp = comp /\ prev.mode = "upsert" /\ prev.clean)
        => store = prev.store

(***************************************************************************)
(* C7: when an UploadExcel run ends, the records-changed signal has been   *)
(* emitted exactly if at least one row was written; an empty file yields   *)
(* zero successes, zero errors and no signal.                              *)
(***************************************************************************)
C7_SignalIffRowsWritten ==
    (RunEnded /\ comp = "UploadExcel") =>
        /\ signalled <=> (uploadResults.success > 0)
        /\ (file.ok /\ file.rows = <<>>) => (result = NoResults /\ ~signalled)

\* the spreadsheet row numbers listed in the errors of the reported result
ErrorRows == {result.errors[j].row : j \in DOMAIN result.errors}

(***************************************************************************)
(* C21: in a completed upsert run every input row is accounted for exactly *)
(* once: it is written and counted in the success count, or it is listed   *)
(* once in errors under its spreadsheet row number (index + 2), so success *)
(* plus the number of errors is the number of input rows; a row that fails *)
(* validation is listed and is never written.                              *)
(***************************************************************************)
C21_RowsAccounted ==
    (upc = "done" /\ mode = "upsert" /\ file.ok) =>
        /\ result.success + Len(result.errors) = Len(file.rows)
        /\ \A i, j \in DOMAIN result.errors :
              result.errors[i].row = result.errors[j].row => i = j
        /\ ErrorRows \subseteq {k + 1 : k \in DOMAIN file.rows}
        /\ result.success = Cardinality({k \in DOMAIN file.rows : k + 1 \notin ErrorRows})
        /\ \A k \in DOMAIN file.rows :
              k + 1 \notin ErrorRows =>
                  \E r \in store : r.number = RecordOf(comp, file.rows[k]).number
        /\ \A k \in DOMAIN file.rows \ ValidIdx(file.rows, comp) :
              /\ k + 1 \in ErrorRows
              /\ RecordOf(comp, file.rows[k]) \notin store

\* a completed upsert run with rows written and rows listed
C21_Witness ==
    /\ upc = "done" /\ mode = "upsert" /\ file.ok /\ Len(file.rows) = MaxRows
    /\ result.success > 0 /\ Len(result.errors) > 0
    /\ DOMAIN file.rows \ ValidIdx(file.rows, comp) # {}

(***************************************************************************)
(* usePTWRecords: the hook that owns a view's in-memory record list.       *)
(* It queries ptw_records with the view's filters and follows the change   *)
(* notifications of the realtime channel.                                  *)
(***************************************************************************)

\* payload of a postgres_changes notification
Payload(eventType, new, old) == [eventType |-> eventType, new |-> new, old |-> old]

\* { ...rec, ...new }
Spread(rec, new) ==
    [k \in DOMAIN rec \cup DOMAIN new |-> IF k \in DOMAIN new THEN new[k] ELSE rec[k]]

OnInsert_NoExistsCheck(prevList, payload) == <<payload.new>> \o prevList

\* an INSERT handler that looks for the id in the last record only
OnInsert_ChecksLast(prevList, payload) ==
    LET exists == prevList # <<>> /\ prevList[Len(prevList)].id = payload.new.id
    IN IF ~exists THEN <<payload.new>> \o prevList ELSE prevList

\* INSERT handler: setRecords(prev => ...)
OnInsert(prevList, payload) ==
    LET exists == \E i \in DOMAIN prevList : prevList[i].id = payload.new.id
    IN IF ~exists THEN <<payload.new>> \o prevList ELSE prevList

\* an UPDATE handler that leaves the list as it is
OnUpdate_KeepsOld(prevList, payload) == prevList

\* UPDATE handler
OnUpdate(prevList, payload) ==
    [i \in DOMAIN prevList |->
        IF prevList[i].id = payload.new.id THEN Spread(prevList[i], payload.new)
        ELSE prevList[i]]

\* a DELETE handler that drops the first record whatever its id
OnDelete_DropsHead(prevList, payload) ==
    IF prevList = <<>> THEN prevList ELSE Tail(prevList)

\* DELETE handler
OnDelete(prevList, payload) ==
    SelectSeq(prevList, LAMBDA r : r.id # payload.old.id)

Handle(prevList, payload) ==
    CASE payload.eventType = "INSERT" -> OnInsert(prevList, payload)
      [] payload.eventType = "UPDATE" -> OnUpdate(prevList, payload)
      [] payload.eventType = "DELETE" -> OnDelete(prevList, payload)

\* query.range(from, to), applied when options.page and options.pageSize are truthy
RangeOf(rows, page, pageSize) ==
    IF page # 0 /\ pageSize # 0
    THEN SubSeq(rows, (page - 1) * pageSize + 1, Min((page - 1) * pageSize + pageSize, Len(rows)))
    ELSE rows

\* what the backend answers to the query fetchRecords builds from the options
HookQuery(tbl, opts) ==
    LET hits == RunQuery(tbl, QueryPredicates(opts.filters))
    IN [data |-> RangeOf(hits, opts.page, opts.pageSize), count |-> Len(hits)]

(***************************************************************************)
(* SpecHook: one view that mounts the hook, fetches (on mount, whenever    *)
(* its fetch effect re-runs, on refetch, and on the records-changed        *)
(* signal) while other clients change the table, and is unmounted.         *)
(***************************************************************************)
MaxFetches == 2
MaxChanges == 1
MaxSignals == 1
MaxToggles == 2
PageSize == 2

S_Closed == <<"C","l","o","s","e","d">>

\* the table when the view mounts, and the rows other clients insert later
InitialTable == <<Sample3, Sample4>>
Arrivals == <<Sample2, Sample1>>

NoDateRange == [from |-> <<>>, to |-> <<>>]
NoFilters ==
    [search |-> <<>>, company |-> <<>>, status |-> <<>>, type |-> <<>>, dateRange |-> NoDateRange]
CompanyAB == [NoFilters EXCEPT !.company = <<"A","B">>]

Options(hf, page, enableRealtime) ==
    [filters |-> hf, page |-> page, pageSize |-> PageSize, enableRealtime |-> enableRealtime]

OptionChoices ==
    {Options(NoFilters, 0, TRUE), Options(CompanyAB, 1, TRUE), Options(NoFilters, 1, FALSE)}

\* fetchRecords up to the await of the query; the backend evaluates the query
\* when it is sent, and the response travels for as long as it likes
fetchRecords(opts) ==
    /\ fetches < MaxFetches
    /\ fetches' = fetches + 1
    /\ aborted' = IF abortController # 0 THEN aborted \cup {abortController} ELSE aborted
    /\ abortController' = fetches + 1
    /\ loading' = TRUE
    /\ error' = Null
    /\ LET answer == HookQuery(ptw_records, opts)
       IN /\ pending' = pending \cup {[id |-> fetches + 1, answer |-> answer]}
          /\ latest' = answer

\* a removeChannel that leaves the channel with the client
removeChannel_Leaks(held) == held

\* supabase.removeChannel(channel): the client holds one channel less
removeChannel(held) == held - 1

\* setupRealtime returns a new channel unless the guard of its first line returns
CreatesChannel(subscribed, enableRealtime) == ~(subscribed \/ ~enableRealtime)

\* the cleanup of the realtime effect, on the client's channels and on the ref
CleanupHeld(ch, held) == IF ch # "none" THEN removeChannel(held) ELSE held
CleanupSubscribed(ch, subscribed) == IF ch # "none" THEN FALSE ELSE subscribed

\* the view mounts: initial state, then the fetch effect and the realtime effect
Mount(opts) ==
    /\ mounted = "off"
    /\ mounted' = "yes"
    /\ options' = opts
    /\ hookRecords' = <<>>
    /\ totalCount' = 0
    /\ fetchRecords(opts)
    /\ channel' = IF opts.enableRealtime /\ CreatesChannel(realtimeSubscribed, opts.enableRealtime)
                   THEN "joining" ELSE "none"
    /\ subscriptions' = IF opts.enableRealtime /\ CreatesChannel(realtimeSubscribed, opts.enableRealtime)
                         THEN subscriptions + 1 ELSE subscriptions
    /\ UNCHANGED <<ptw_records, inserted, changes, realtimeSubscribed, events, lastApplied,
                   answeredOk, lastEvent, emitted, closing, toggles>>

\* a render hands the hook a new filters object, so the fetch effect runs again
FetchEffect ==
    /\ mounted = "yes"
    /\ fetchRecords(options)
    /\ UNCHANGED <<ptw_records, inserted, changes, options, mounted, hookRecords, totalCount,
                   realtimeSubscribed, channel, events, lastApplied, answeredOk, lastEvent,
                   emitted, subscriptions, closing, toggles>>

refetch ==
    /\ mounted = "yes"
    /\ hookRecords' = <<>>
    /\ fetchRecords(options)
    /\ lastEvent' = Null
    /\ UNCHANGED <<ptw_records, inserted, changes, options, mounted, totalCount,
                   realtimeSubscribed, channel, events, lastApplied, answeredOk,
                   subscriptions, closing, toggles>>

\* the view calls refetch itself
ManualRefetch == refetch /\ UNCHANGED emitted

\* window.dispatchEvent(new Event('ptw-records-updated')): the listener of a
\* mounted view calls refetch; before the mount and after the unmount no
\* listener of the view is registered
dispatchPTWUpdate ==
    /\ emitted < MaxSignals
    /\ emitted' = emitted + 1
    /\ IF mounted = "yes"
       THEN refetch
       ELSE UNCHANGED <<ptw_records, inserted, changes, options, mounted, hookRecords, loading,
                        error, totalCount, realtimeSubscribed, abortController, aborted, pending,
                        fetches, channel, events, lastApplied, answeredOk, lastEvent, latest,
                        subscriptions, closing, toggles>>

\* the awaited query of one fetchRecords call resolves, with the rows or with
\* a query error; nothing consults the controller of the call, and the state
\* setters of an unmounted view do nothing
FetchResponse(q, ok) ==
    /\ q \in pending
    /\ pending' = pending \ {q}
    /\ answeredOk' = IF ok THEN answeredOk \cup {q.id} ELSE answeredOk
    /\ IF mounted # "yes"
       THEN UNCHANGED <<hookRecords, totalCount, error, loading, lastApplied, lastEvent>>
       ELSE /\ loading' = FALSE
            /\ IF ok
               THEN /\ hookRecords' = q.answer.data
                    /\ totalCount' = q.answer.count
                    /\ lastApplied' = q.id
                    /\ lastEvent' = Null
                    /\ UNCHANGED error
               ELSE /\ error' = "query error"
                    /\ UNCHANGED <<hookRecords, totalCount, lastApplied, lastEvent>>
    /\ UNCHANGED <<ptw_records, inserted, changes, options, mounted, realtimeSubscribed,
                   abortController, aborted, fetches, channel, events, latest, emitted,
                   subscriptions, closing, toggles>>

\* the callback given to subscribe
SubscribeStatus(status) ==
    /\ channel \in {"joining", "joined"}
    /\ realtimeSubscribed' = (status = "SUBSCRIBED")
    /\ channel' = IF status = "SUBSCRIBED" THEN "joined" ELSE "joining"
    /\ events' = IF status = "SUBSCRIBED" THEN events ELSE {}
    /\ UNCHANGED <<ptw_records, inserted, changes, options, mounted, hookRecords, loading, error,
                   totalCount, abortController, aborted, pending, fetches, lastApplied,
                   answeredOk, lastEvent, latest, emitted, subscriptions, closing, toggles>>

\* the callback given to subscribe by a channel that was removed since: the
\* channel reports that it closed
ClosedStatus ==
    /\ mounted = "yes"
    /\ closing > 0
    /\ closing' = closing - 1
    /\ realtimeSubscribed' = FALSE
    /\ UNCHANGED <<ptw_records, inserted, changes, options, mounted, hookRecords, loading, error,
                   totalCount, abortController, aborted, pending, fetches, channel, events,
                   lastApplied, answeredOk, lastEvent, latest, emitted, subscriptions, toggles>>

\* options.enableRealtime changes: the cleanup of the realtime effect, then
\* the effect again
SetEnableRealtime ==
    /\ mounted = "yes"
    /\ toggles < MaxToggles
    /\ toggles' = toggles + 1
    /\ options' = [options EXCEPT !.enableRealtime = ~@]
    /\ aborted' = IF abortController # 0 THEN aborted \cup {abortController} ELSE aborted
    /\ closing' = IF channel # "none" THEN closing + 1 ELSE closing
    /\ events' = {}
    /\ LET create == /\ ~options.enableRealtime
                      /\ CreatesChannel(CleanupSubscribed(channel, realtimeSubscribed), TRUE)
       IN /\ channel' = IF create THEN "joining" ELSE "none"
          /\ subscriptions' = CleanupHeld(channel, subscriptions) + (IF create THEN 1 ELSE 0)
    /\ realtimeSubscribed' = CleanupSubscribed(channel, realtimeSubscribed)
    /\ UNCHANGED <<ptw_records, inserted, changes, mounted, hookRecords, loading, error,
                   totalCount, abortController, pending, fetches, lastApplied, answeredOk,
                   lastEvent, latest, emitted>>

\* a change another client makes while the view is there reaches the view's
\* channel when it has joined
Notify(payload) ==
    /\ mounted = "yes"
    /\ changes < MaxChanges
    /\ changes' = changes + 1
    /\ events' = IF channel = "joined" THEN events \cup {payload} ELSE events
    /\ UNCHANGED <<options, mounted, hookRecords, loading, error, totalCount, realtimeSubscribed,
                   abortController, aborted, pending, fetches, channel, lastApplied, answeredOk,
                   lastEvent, latest, emitted, subscriptions, closing, toggles>>

RemoteInsert ==
    /\ inserted < Len(Arrivals)
    /\ inserted' = inserted + 1
    /\ ptw_records' = <<Arrivals[inserted + 1]>> \o ptw_records
    /\ Notify(Payload("INSERT", Arrivals[inserted + 1], Null))

RemoteUpdate(i) ==
    /\ i \in DOMAIN ptw_records
    /\ ptw_records[i].status # S_Closed
    /\ ptw_records' = [ptw_records EXCEPT ![i].status = S_Closed]
    /\ Notify(Payload("UPDATE", [ptw_records[i] EXCEPT !.status = S_Closed], [id |-> ptw_records[i].id]))
    /\ UNCHANGED inserted

RemoteDelete(i) ==
    /\ i \in DOMAIN ptw_records
    /\ ptw_records' = SelectSeq(ptw_records, LAMBDA r : r.id # ptw_records[i].id)
    /\ Notify(Payload("DELETE", Null, [id |-> ptw_records[i].id]))
    /\ UNCHANGED inserted

\* the channel hands a notification to its handler; it may hand it over again later
DeliverEvent(payload, again) ==
    /\ mounted = "yes"
    /\ channel = "joined"
    /\ payload \in events
    /\ hookRecords' = Handle(hookRecords, payload)
    /\ lastEvent' = [payload |-> payload, before |-> hookRecords]
    /\ events' = IF again THEN events ELSE events \ {payload}
    /\ UNCHANGED <<ptw_records, inserted, changes, options, mounted, loading, error, totalCount,
                   realtimeSubscribed, abortController, aborted, pending, fetches, channel,
                   lastApplied, answeredOk, latest, emitted, subscriptions, closing, toggles>>

\* the view unmounts: cleanup of the realtime effect; what a removed channel
\* reports after that goes to the ref of a hook that no longer runs
Unmount ==
    /\ mounted = "yes"
    /\ mounted' = "gone"
    /\ channel' = "none"
    /\ realtimeSubscribed' = CleanupSubscribed(channel, realtimeSubscribed)
    /\ subscriptions' = CleanupHeld(channel, subscriptions)
    /\ closing' = 0
    /\ aborted' = IF abortController # 0 THEN aborted \cup {abortController} ELSE aborted
    /\ events' = {}
    /\ UNCHANGED <<ptw_records, inserted, changes, options, hookRecords, loading, error,
                   totalCount, abortController, pending, fetches, lastApplied, answeredOk,
                   lastEvent, latest, emitted, toggles>>

HookInit ==
    /\ ptw_records = InitialTable /\ inserted = 0 /\ changes = 0 /\ options = Null
    /\ mounted = "off" /\ hookRecords = <<>> /\ loading = TRUE /\ error = Null
    /\ totalCount = 0 /\ realtimeSubscribed = FALSE /\ abortController = 0 /\ aborted = {}
    /\ pending = {} /\ fetches = 0 /\ channel = "none" /\ events = {}
    /\ lastApplied = 0 /\ answeredOk = {} /\ lastEvent = Null /\ latest = Null
    /\ emitted = 0 /\ subscriptions = 0 /\ closing = 0 /\ toggles = 0
    /\ ValidateIdle
    /\ FilterIdle
    /\ UploadIdle
    /\ CallIdle

HookNext ==
    \/ \E opts \in OptionChoices : Mount(opts) /\ UNCHANGED <<validateVars, filterVars, uploadVars, callVars>>
    \/ FetchEffect /\ UNCHANGED <<validateVars, filterVars, uploadVars, callVars>>
    \/ ManualRefetch /\ UNCHANGED <<validateVars, filterVars, uploadVars, callVars>>
    \/ dispatchPTWUpdate /\ UNCHANGED <<validateVars, filterVars, uploadVars, callVars>>
    \/ \E q \in pending, ok \in BOOLEAN :
          FetchResponse(q, ok) /\ UNCHANGED <<validateVars, filterVars, uploadVars, callVars>>
    \/ \E status \in {"SUBSCRIBED", "CHANNEL_ERROR"} :
          SubscribeStatus(status) /\ UNCHANGED <<validateVars, filterVars, uploadVars, callVars>>
    \/ RemoteInsert /\ UNCHANGED <<validateVars, filterVars, uploadVars, callVars>>
    \/ \E i \in 1..Len(Samples) : RemoteUpdate(i) /\ UNCHANGED <<validateVars, filterVars, uploadVars, callVars>>
    \/ \E i \in 1..Len(Samples) : RemoteDelete(i) /\ UNCHANGED <<validateVars, filterVars, uploadVars, callVars>>
    \/ \E payload \in events, again \in BOOLEAN :
          DeliverEvent(payload, again) /\ UNCHANGED <<validateVars, filterVars, uploadVars, callVars>>
    \/ Unmount /\ UNCHANGED <<validateVars, filterVars, uploadVars, callVars>>

SpecHook == HookInit /\ [][HookNext]_vars

(***************************************************************************)
(* SpecRealtime: the same view under a caller that switches enableRealtime *)
(* on and off: the realtime effect, its cleanup, and what the channels     *)
(* report and deliver, beside the fetches that settle.                     *)
(***************************************************************************)
RealtimeNext ==
    \/ \E opts \in OptionChoices : Mount(opts) /\ UNCHANGED <<validateVars, filterVars, uploadVars, callVars>>
    \/ SetEnableRealtime /\ UNCHANGED <<validateVars, filterVars, uploadVars, callVars>>
    \/ \E status \in {"SUBSCRIBED", "CHANNEL_ERROR"} :
          SubscribeStatus(status) /\ UNCHANGED <<validateVars, filterVars, uploadVars, callVars>>
    \/ ClosedStatus /\ UNCHANGED <<validateVars, filterVars, uploadVars, callVars>>
    \/ \E q \in pending, ok \in BOOLEAN :
          FetchResponse(q, ok) /\ UNCHANGED <<validateVars, filterVars, uploadVars, callVars>>
    \/ RemoteInsert /\ UNCHANGED <<validateVars, filterVars, uploadVars, callVars>>
    \/ \E payload \in events, again \in BOOLEAN :
          DeliverEvent(payload, again) /\ UNCHANGED <<validateVars, filterVars, uploadVars, callVars>>
    \/ Unmount /\ UNCHANGED <<validateVars, filterVars, uploadVars, callVars>>

SpecRealtime == HookInit /\ [][RealtimeNext]_vars

(***************************************************************************)
(* SpecPaged: a view that asks for the first page, with or without a       *)
(* company filter, and follows the realtime channel while other clients    *)
(* insert, update and delete rows.                                         *)
(***************************************************************************)
CompanyXY == [NoFilters EXCEPT !.company = <<"X","Y">>]

PagedChoices == {Options(NoFilters, 1, TRUE), Options(CompanyXY, 1, TRUE)}

PagedNext ==
    \/ \E opts \in PagedChoices : Mount(opts) /\ UNCHANGED <<validateVars, filterVars, uploadVars, callVars>>
    \/ \E q \in pending, ok \in BOOLEAN :
          FetchResponse(q, ok) /\ UNCHANGED <<validateVars, filterVars, uploadVars, callVars>>
    \/ \E status \in {"SUBSCRIBED", "CHANNEL_ERROR"} :
          SubscribeStatus(status) /\ UNCHANGED <<validateVars, filterVars, uploadVars, callVars>>
    \/ RemoteInsert /\ UNCHANGED <<validateVars, filterVars, uploadVars, callVars>>
    \/ \E i \in 1..Len(Samples) : RemoteUpdate(i) /\ UNCHANGED <<validateVars, filterVars, uploadVars, callVars>>
    \/ \E i \in 1..Len(Samples) : RemoteDelete(i) /\ UNCHANGED <<validateVars, filterVars, uploadVars, callVars>>
    \/ \E payload \in events, again \in BOOLEAN :
          DeliverEvent(payload, again) /\ UNCHANGED <<validateVars, filterVars, uploadVars, callVars>>
    \/ Unmount /\ UNCHANGED <<validateVars, filterVars, uploadVars, callVars>>

SpecPaged == HookInit /\ [][PagedNext]_vars

\* every fetch has settled and the view is still mounted
FetchesSettled == mounted = "yes" /\ fetches > 0 /\ pending = {}

\* C5: a fetch that a newer fetchRecords call superseded never has its result
\* applied: once every fetch has settled and the most recently started one was
\* answered, the records and the total count are those of that fetch.
C5_LatestFetchWins ==
    (FetchesSettled /\ fetches \in answeredOk) => lastApplied = fetches

InsertHandled == lastEvent # Null /\ lastEvent.payload.eventType = "INSERT"

IdIn(list, id) == \E i \in DOMAIN list : list[i].id = id

\* C6: an insert notification puts the new record in front of the list when its
\* id is not in the list and leaves the list as it is otherwise; handling the
\* same notification again changes nothing.
C6_InsertIdempotent ==
    InsertHandled =>
        /\ hookRecords = IF IdIn(lastEvent.before, lastEvent.payload.new.id)
                         THEN lastEvent.before
                         ELSE <<lastEvent.payload.new>> \o lastEvent.before
        /\ Handle(hookRecords, lastEvent.payload) = hookRecords

C6_Witness ==
    /\ InsertHandled
    /\ IdIn(lastEvent.before, lastEvent.payload.new.id)
    /\ Len(hookRecords) > 1
    /\ hookRecords[1] = lastEvent.payload.new

\* the step is an emission of the records-changed signal
Emission == emitted' = emitted + 1

\* C16: every emission of the records-changed signal while the view is mounted
\* makes the view fetch the record set again, and once the fetches have
\* settled the records of the view are the result of the latest fetch; after
\* the unmount an emission starts no fetch for the view.
C16_SignalRefetches ==
    /\ [][Emission =>
            IF mounted = "yes"
            THEN /\ fetches' = fetches + 1
                 /\ \E q \in pending' \ pending : q.answer = HookQuery(ptw_records, options)
            ELSE UNCHANGED <<fetches, pending, hookRecords, loading>>]_vars
    /\ []((FetchesSettled /\ emitted > 0 /\ fetches \in answeredOk /\ lastEvent = Null)
             => (hookRecords = latest.data /\ totalCount = latest.count))

\* C17: the realtime client holds at most one channel of the view at every
\* moment, whatever the mounts, changes of enableRealtime, subscription-status
\* callbacks and unmount so far, and none once the view is unmounted or
\* realtime is disabled.
C17_OneSubscription ==
    /\ subscriptions <= 1
    /\ mounted = "gone" => subscriptions = 0
    /\ (mounted = "yes" /\ ~options.enableRealtime) => subscriptions = 0

\* realtime was enabled, disabled and enabled again, and a removed channel
\* has reported since
C17_Witness ==
    /\ mounted = "yes" /\ toggles = 2 /\ options.enableRealtime
    /\ subscriptions = 1 /\ closing = 0

UpdateHandled == lastEvent # Null /\ lastEvent.payload.eventType = "UPDATE"

\* rec is old with the fields of new laid over it
IsMerge(rec, old, new) ==
    /\ DOMAIN rec = DOMAIN old \cup DOMAIN new
    /\ \A k \in DOMAIN new : rec[k] = new[k]
    /\ \A k \in DOMAIN old \ DOMAIN new : rec[k] = old[k]

\* C18: an update notification replaces the record with the matching id in
\* place, the notification's fields merged over the old ones, and keeps the
\* length of the list, its order and every other record; with no record of
\* that id the list stays as it is.
C18_UpdateInPlace ==
    UpdateHandled =>
        LET before == lastEvent.before
            new == lastEvent.payload.new
        IN /\ Len(hookRecords) = Len(before)
           /\ \A i \in DOMAIN before :
                IF before[i].id = new.id
                THEN IsMerge(hookRecords[i], before[i], new)
                ELSE hookRecords[i] = before[i]
           /\ ~IdIn(before, new.id) => hookRecords = before

C18_Witness ==
    /\ UpdateHandled
    /\ Len(hookRecords) > 1
    /\ \E i \in DOMAIN hookRecords :
         /\ lastEvent.before[i].id = lastEvent.payload.new.id
         /\ lastEvent.before[i].status # S_Closed
         /\ hookRecords[i].status = S_Closed

DeleteHandled == lastEvent # Null /\ lastEvent.payload.eventType = "DELETE"

\* C19: a delete notification removes exactly the record whose id matches and
\* leaves the other records and their order as they were; with no record of
\* that id the list stays as it is.
C19_DeleteExact ==
    DeleteHandled =>
        LET before == lastEvent.before
            id == lastEvent.payload.old.id
        IN /\ hookRecords = SelectSeq(before, LAMBDA r : r.id # id)
           /\ \A r \in {before[i] : i \in DOMAIN before} :
                r.id # id => \E i \in DOMAIN hookRecords : hookRecords[i] = r
           /\ Len(hookRecords) = Len(before) - Cardinality({i \in DOMAIN before : before[i].id = id})
           /\ ~IdIn(before, id) => hookRecords = before

C19_Witness ==
    /\ DeleteHandled
    /\ Len(lastEvent.before) = 2
    /\ lastEvent.before[2].id = lastEvent.payload.old.id
    /\ hookRecords = <<lastEvent.before[1]>>

\* the rows of the sheet the batch loop has settled: written, rejected, or
\* failed validation
Settled == uploadResults.success + Len(uploadResults.errors)

\* C20: upsert batches run one after another: while a batch is being written
\* every row of the earlier batches has settled and the writes in flight are
\* rows of that batch only, so never more than the batch size.
C20_BatchesSequential ==
    /\ upc = "dwrites" =>
         /\ inflight # {}
         /\ inflight \subseteq BatchIdx(Len(file.rows), bi)
         /\ Cardinality(inflight) <= BatchSize
         /\ Settled = bi + Cardinality(BatchIdx(Len(file.rows), bi) \ inflight)
    /\ upc = "batch" =>
         /\ bi < Len(validRecords)
         /\ uploadResults.success = bi
         /\ inflight = {}
    /\ upc \notin {"dwrites"} => inflight = {}

\* the second batch of a Dashboard upload is in flight, the first has settled
C20_Witness ==
    /\ upc = "dwrites" /\ bi = BatchSize /\ inflight # {}
    /\ Settled >= BatchSize /\ uploadResults.success > 0

(***************************************************************************)
(* The pure functions of the dashboard and of the charts.  SpecCalls calls *)
(* one of them once, on an argument drawn from its inputs.                 *)
(***************************************************************************)
Space == " "
S_hn == <<"h","n">>
S_hotNaked == <<"h","o","t",Space,"n","a","k","e","d">>
S_hot == <<"h","o","t">>
S_cold == <<"c","o","l","d">>

\* determineRiskLevel testing for 'h' before 'hn'
determineRiskLevel_MediumFirst(type) ==
    LET lowerType == toLowerCase(type)
    IN IF includes(lowerType, <<"h">>) \/ includes(lowerType, S_hot) THEN "Medium"
       ELSE IF includes(lowerType, S_hn) \/ includes(lowerType, S_hotNaked) THEN "High"
       ELSE IF includes(lowerType, <<"c">>) \/ includes(lowerType, S_cold) THEN "Low"
       ELSE "Medium"

determineRiskLevel(type) ==
    LET lowerType == toLowerCase(type)
    IN IF includes(lowerType, S_hn) \/ includes(lowerType, S_hotNaked) THEN "High"
       ELSE IF includes(lowerType, <<"h">>) \/ includes(lowerType, S_hot) THEN "Medium"
       ELSE IF includes(lowerType, <<"c">>) \/ includes(lowerType, S_cold) THEN "Low"
       ELSE "Medium"

\* seq.sort((a, b) => b[field] - a[field]); Array.prototype.sort is stable
SortDescBy(seq, field) ==
    LET Before(j, i) == seq[j][field] > seq[i][field] \/ (seq[j][field] = seq[i][field] /\ j < i)
        Rank(i) == Cardinality({j \in DOMAIN seq : Before(j, i)}) + 1
    IN [r \in DOMAIN seq |-> seq[CHOOSE i \in DOMAIN seq : Rank(i) = r]]

S_Unknown == <<"U","n","k","n","o","w","n">>
S_HN == <<"H","N">>
S_HotNaked == <<"H","o","t",Space,"N","a","k","e","d">>

\* record.type || 'Unknown'
TypeKey(rec) == IF rec.type = <<>> THEN S_Unknown ELSE rec.type

\* the keys of typeMap, in the order the records insert them
RECURSIVE TypeKeys(_, _)
TypeKeys(recs, keys) ==
    IF recs = <<>> THEN keys
    ELSE TypeKeys(Tail(recs),
                  IF \E k \in DOMAIN keys : keys[k] = TypeKey(Head(recs))
                  THEN keys ELSE Append(keys, TypeKey(Head(recs))))

CountOfType(recs, type) == Cardinality({i \in DOMAIN recs : TypeKey(recs[i]) = type})

\* analyzeWorkTypes of the dashboard
analyzeWorkTypes(recs) ==
    LET keys == TypeKeys(recs, <<>>)
    IN SortDescBy([k \in DOMAIN keys |->
                      [type |-> keys[k], count |-> CountOfType(recs, keys[k]),
                       riskLevel |-> determineRiskLevel(keys[k])]], "count")

RECURSIVE SumOf(_, _)
SumOf(seq, field) == IF seq = <<>> THEN 0 ELSE Head(seq)[field] + SumOf(Tail(seq), field)

\* the three risk counts of calculateStats
RiskCountsOfStats(recs) ==
    LET workTypes == analyzeWorkTypes(recs)
    IN [highRiskCount |-> SumOf(SelectSeq(workTypes, LAMBDA t : t.riskLevel = "High"), "count"),
        mediumRiskCount |-> SumOf(SelectSeq(workTypes, LAMBDA t : t.riskLevel = "Medium"), "count"),
        lowRiskCount |-> SumOf(SelectSeq(workTypes, LAMBDA t : t.riskLevel = "Low"), "count")]

\* the risk level TypeBreakdownChart gives a type
ChartRiskLevel(type) ==
    IF includes(type, S_HN) \/ includes(type, S_HotNaked) THEN "High"
    ELSE IF includes(type, <<"H">>) THEN "Medium"
    ELSE IF includes(type, <<"C">>) THEN "Low"
    ELSE "Medium"

\* TypeBreakdownChart.processData
TypeBreakdownData(recs) ==
    LET keys == TypeKeys(recs, <<>>)
    IN SortDescBy([k \in DOMAIN keys |->
                      [name |-> keys[k], value |-> CountOfType(recs, keys[k]),
                       riskLevel |-> ChartRiskLevel(keys[k])]], "value")

\* riskCounts of TypeBreakdownChart
riskCounts(data) ==
    [High |-> SumOf(SelectSeq(data, LAMBDA item : item.riskLevel = "High"), "value"),
     Medium |-> SumOf(SelectSeq(data, LAMBDA item : item.riskLevel = "Medium"), "value"),
     Low |-> SumOf(SelectSeq(data, LAMBDA item : item.riskLevel = "Low"), "value")]

S_extended == <<"e","x","t","e","n","d","e","d">>
S_extend == <<"e","x","t","e","n","d">>
S_closed == <<"c","l","o","s","e","d">>
S_completed == <<"c","o","m","p","l","e","t","e","d">>
S_planned == <<"p","l","a","n","n","e","d">>
S_scheduled == <<"s","c","h","e","d","u","l","e","d">>
S_open == <<"o","p","e","n">>
S_active == <<"a","c","t","i","v","e">>
S_hold == <<"h","o","l","d">>
S_onHold == <<"o","n",Space,"h","o","l","d">>

\* the if/else-if chain of analyzeCompanyStats with 'open' tested before 'closed'
StatusBucket_OpenFirst(status) ==
    IF includes(status, S_extended) \/ includes(status, S_extend) THEN "extended"
    ELSE IF includes(status, S_open) \/ includes(status, S_active) THEN "open"
    ELSE IF includes(status, S_closed) \/ includes(status, S_completed) THEN "closed"
    ELSE IF includes(status, S_planned) \/ includes(status, S_scheduled) THEN "planned"
    ELSE IF includes(status, S_hold) \/ includes(status, S_onHold) THEN "hold"
    ELSE "none"

\* the if/else-if chain of analyzeCompanyStats over the lower-cased status
StatusBucket(status) ==
    IF includes(status, S_extended) \/ includes(status, S_extend) THEN "extended"
    ELSE IF includes(status, S_closed) \/ includes(status, S_completed) THEN "closed"
    ELSE IF includes(status, S_planned) \/ includes(status, S_scheduled) THEN "planned"
    ELSE IF includes(status, S_open) \/ includes(status, S_active) THEN "open"
    ELSE IF includes(status, S_hold) \/ includes(status, S_onHold) THEN "hold"
    ELSE "none"

NewCompanyStats(company) ==
    [company |-> company, total |-> 0, extended |-> 0, closed |-> 0, planned |-> 0,
     open |-> 0, hold |-> 0]

\* stats.total++ and the bucket of the record's status
Tally(stats, rec) ==
    LET bucket == StatusBucket(toLowerCase(rec.status))
        counted == [stats EXCEPT !.total = @ + 1]
    IN IF bucket = "none" THEN counted ELSE [counted EXCEPT ![bucket] = @ + 1]

\* position of the entry of a company in the map (a Map keeps insertion order), or 0
EntryOf(map, company) ==
    IF \E k \in DOMAIN map : map[k].company = company
    THEN CHOOSE k \in DOMAIN map : map[k].company = company
    ELSE 0

\* records.forEach(...) of analyzeCompanyStats
RECURSIVE CompanyMap(_, _)
CompanyMap(recs, map) ==
    IF recs = <<>> THEN map
    ELSE LET rec == Head(recs)
             map2 == IF EntryOf(map, rec.company) = 0
                     THEN Append(map, NewCompanyStats(rec.company)) ELSE map
         IN IF rec.company = <<>> THEN CompanyMap(Tail(recs), map)
            ELSE CompanyMap(Tail(recs),
                            [map2 EXCEPT ![EntryOf(map2, rec.company)] = Tally(@, rec)])

analyzeCompanyStats(recs) == SortDescBy(CompanyMap(recs, <<>>), "total")

(***************************************************************************)
(* PermitsPerDayChart: the daily series and its trend.                     *)
(***************************************************************************)
Max(a, b) == IF a > b THEN a ELSE b

\* Array.prototype.slice(start, end); a negative index counts from the end
Slice(seq, start, end) ==
    LET from == IF start < 0 THEN Max(Len(seq) + start, 0) ELSE Min(start, Len(seq))
        to == IF end < 0 THEN Max(Len(seq) + end, 0) ELSE Min(end, Len(seq))
    IN SubSeq(seq, from + 1, to)

\* s.split('T')[0]
BeforeT(s) ==
    IF \E i \in DOMAIN s : s[i] = "T"
    THEN SubSeq(s, 1, (CHOOSE i \in DOMAIN s : s[i] = "T" /\ \A j \in 1..(i - 1) : s[j] # "T") - 1)
    ELSE s

DayOf(entries, day) ==
    IF \E k \in DOMAIN entries : entries[k].day = day
    THEN CHOOSE k \in DOMAIN entries : entries[k].day = day
    ELSE 0

\* records.forEach(...) of processData, then Array.from(dayMap.entries()).map(...)
RECURSIVE DayMap(_, _)
DayMap(recs, entries) ==
    IF recs = <<>> THEN entries
    ELSE LET day == BeforeT(Head(recs).day)
         IN IF Head(recs).day = <<>> THEN DayMap(Tail(recs), entries)
            ELSE IF DayOf(entries, day) = 0
                 THEN DayMap(Tail(recs), Append(entries, [day |-> day, count |-> 1]))
                 ELSE DayMap(Tail(recs), [entries EXCEPT ![DayOf(entries, day)].count = @ + 1])

\* new Date(entry.day) of every entry
DayDates(entries) == [i \in DOMAIN entries |-> DateFromString(entries[i].day)] @@ <<>>

\* (a, b) => new Date(a.day).getTime() - new Date(b.day).getTime(), on the two
\* dates; the sort reads a NaN result as +0
CompareDays(da, db) == IF isNaN(da) \/ isNaN(db) THEN 0 ELSE da.time - db.time

\* the comparator orders the entries consistently: "equal" is transitive
ConsistentComparator(entries) ==
    LET d == DayDates(entries)
    IN \A i, j, k \in DOMAIN entries :
           (CompareDays(d[i], d[j]) = 0 /\ CompareDays(d[j], d[k]) = 0)
               => CompareDays(d[i], d[k]) = 0

\* the stable ascending sort under a consistent comparator
SortByDay(entries) ==
    LET d == DayDates(entries)
        Before(j, i) == \/ CompareDays(d[j], d[i]) < 0
                        \/ (CompareDays(d[j], d[i]) = 0 /\ j < i)
        rank == [i \in DOMAIN entries |-> Cardinality({j \in DOMAIN entries : Before(j, i)}) + 1] @@ <<>>
    IN [r \in DOMAIN entries |-> entries[CHOOSE i \in DOMAIN entries : rank[i] = r]]

\* Array.prototype.sort: the order is implementation-defined when the
\* comparator is not consistent
SortOutcomes(entries) ==
    IF ConsistentComparator(entries) THEN {SortByDay(entries)}
    ELSE {[r \in DOMAIN entries |-> entries[f[r]]] : f \in Permutations(DOMAIN entries)}

SeriesWindow == 30

processData(recs) == {Slice(sorted, -SeriesWindow, Len(sorted)) : sorted \in SortOutcomes(DayMap(recs, <<>>))}

RECURSIVE SumCounts(_)
SumCounts(data) == IF data = <<>> THEN 0 ELSE Head(data).count + SumCounts(Tail(data))

last7Days(data) == SumCounts(Slice(data, -7, Len(data)))
prev7Days(data) == SumCounts(Slice(data, -14, -7))

\* the trend without the guard on the preceding sum
trend_Unguarded(data) ==
    [num |-> (last7Days(data) - prev7Days(data)) * 100, den |-> prev7Days(data)]

\* the trend as a fraction num / den of integers
trend(data) ==
    IF prev7Days(data) > 0
    THEN [num |-> (last7Days(data) - prev7Days(data)) * 100, den |-> prev7Days(data)]
    ELSE [num |-> 0, den |-> 1]

\* trend > n and trend < n for an integer n; a division by zero gives an
\* infinity of the numerator's sign, or NaN, which compares false
TrendAbove(tr, n) == IF tr.den = 0 THEN tr.num > 0 ELSE tr.num > n * tr.den
TrendBelow(tr, n) == IF tr.den = 0 THEN tr.num < 0 ELSE tr.num < n * tr.den

getTrendColor(tr) ==
    IF TrendAbove(tr, 5) THEN "success"
    ELSE IF TrendBelow(tr, -5) THEN "error"
    ELSE "warning"

\* one render of the chart over a daily series
PermitsPerDayChart(data) ==
    [data |-> data, total |-> SumCounts(data), trend |-> trend(data),
     color |-> getTrendColor(trend(data))]

(***************************************************************************)
(* CompanyStatusChart: the chart's own tally per company.                  *)
(***************************************************************************)
BucketField ==
    [extended |-> "Extended", closed |-> "Closed", planned |-> "Planned", open |-> "Open",
     hold |-> "Hold"]

\* the chart's chain with the final else counting in Hold
ChartBucket_DefaultHold(status) ==
    IF StatusBucket(status) = "none" THEN "Hold" ELSE BucketField[StatusBucket(status)]

\* the if/else-if chain of CompanyStatusChart.processData: the same tests as
\* the dashboard's, and a final else that counts in Open
ChartBucket(status) ==
    IF StatusBucket(status) = "none" THEN "Open" ELSE BucketField[StatusBucket(status)]

NewCompanyData(company) ==
    [company |-> company, Extended |-> 0, Closed |-> 0, Planned |-> 0, Open |-> 0, Hold |-> 0]

\* records.forEach(...) of CompanyStatusChart.processData
RECURSIVE ChartCompanyMap(_, _)
ChartCompanyMap(recs, map) ==
    IF recs = <<>> THEN map
    ELSE LET rec == Head(recs)
             map2 == IF EntryOf(map, rec.company) = 0
                     THEN Append(map, NewCompanyData(rec.company)) ELSE map
         IN IF rec.company = <<>> THEN ChartCompanyMap(Tail(recs), map)
            ELSE ChartCompanyMap(Tail(recs),
                     [map2 EXCEPT ![EntryOf(map2, rec.company)][ChartBucket(toLowerCase(rec.status))] = @ + 1])

\* .map(([company, data]) => ({ company, ...data, total: ... }))
WithTotal(data) ==
    [company |-> data.company, Extended |-> data.Extended, Closed |-> data.Closed,
     Planned |-> data.Planned, Open |-> data.Open, Hold |-> data.Hold,
     total |-> data.Extended + data.Closed + data.Planned + data.Open + data.Hold]

TopCompanies == 8

\* CompanyStatusChart.processData
CompanyStatusData(recs) ==
    LET map == ChartCompanyMap(recs, <<>>)
    IN Slice(SortDescBy([k \in DOMAIN map |-> WithTotal(map[k])], "total"), 0, TopCompanies)

(***************************************************************************)
(* ProtectedRoute: what the route renders for the state of the auth        *)
(* context and the role the route requires.                                *)
(***************************************************************************)
S_viewer == <<"v","i","e","w","e","r">>
S_uploader == <<"u","p","l","o","a","d","e","r">>
S_admin == <<"a","d","m","i","n">>
S_guest == <<"g","u","e","s","t">>

\* roleHierarchy[role]: the rank of one of the three keys, undefined for
\* every other value
roleHierarchy(role) ==
    IF role = Str(S_viewer) THEN Num(1)
    ELSE IF role = Str(S_uploader) THEN Num(2)
    ELSE IF role = Str(S_admin) THEN Num(3)
    ELSE Undefined

\* a < b of JavaScript on ranks: undefined converts to NaN, and every
\* comparison with NaN is false
LessThan(a, b) == a.t = "number" /\ b.t = "number" /\ a.n < b.n

\* requiredRole = 'viewer' in the parameter list
RequiredOrDefault(requiredRole) ==
    IF requiredRole = Undefined THEN Str(S_viewer) ELSE requiredRole

ProtectedRoute(props, auth) ==
    IF auth.loading THEN "spinner"
    ELSE IF ~Truthy(auth.user) THEN "login"
    ELSE IF LessThan(roleHierarchy(auth.userRole),
                     roleHierarchy(RequiredOrDefault(props.requiredRole)))
         THEN "dashboard"
    ELSE "children"

(***************************************************************************)
(* StatusTrendChart: counts per status over the 14 days that end today.    *)
(***************************************************************************)
S_Active == <<"A","c","t","i","v","e">>
S_Completed == <<"C","o","m","p","l","e","t","e","d">>
S_InProgress == <<"I","n",Space,"P","r","o","g","r","e","s","s">>
S_Cancelled == <<"C","a","n","c","e","l","l","e","d">>

StatusLabels == {S_Active, S_Completed, S_InProgress, S_Cancelled}

TrendWindow == 14

\* the loop for (let i = 13; i >= 0; i--): one seeded entry per day, oldest first
SeedDays(today) ==
    [j \in 1..TrendWindow |->
        [day |-> ISODate([nan |-> FALSE, time |-> today.time - (TrendWindow - j)]),
         counts |-> [l \in StatusLabels |-> 0]]]

\* dayData[status] = (dayData[status] || 0) + 1
Bump(counts, status) ==
    [k \in DOMAIN counts \cup {status} |->
        IF k = status THEN (IF k \in DOMAIN counts THEN counts[k] ELSE 0) + 1 ELSE counts[k]]

\* records.forEach(...) of chartData
RECURSIVE CountStatuses(_, _)
CountStatuses(recs, entries) ==
    IF recs = <<>> THEN entries
    ELSE LET rec == Head(recs)
             at == DayOf(entries, BeforeT(rec.day))
         IN IF rec.day # <<>> /\ rec.status # <<>> /\ at # 0
            THEN CountStatuses(Tail(recs), [entries EXCEPT ![at].counts = Bump(@, rec.status)])
            ELSE CountStatuses(Tail(recs), entries)

\* the series of StatusTrendChart; an entry is its day and the counts spread into it
chartData(recs, today) == SortByDay(CountStatuses(recs, SeedDays(today)))

MaxTypeLen == 3
MaxTrendRecords == 2
MaxStatRecords == 3
MaxDayRecords == 3
MaxTrendDays == 15
MaxDayCount == 3

S_HN1 == <<"H","N","-","1">>
S_Hot == <<"H","o","t">>
S_Cold == <<"C","o","l","d">>
S_HotNakedFlame == <<"H","o","t",Space,"N","a","k","e","d",Space,"F","l","a","m","e">>

\* type codes: every string of up to MaxTypeLen of these characters, and some words
TypeInputs ==
    SeqsUpTo({"H", "h", "N", "n", "C", "c", "o", "-"}, MaxTypeLen)
        \cup {S_HN1, S_Hot, S_Cold, S_HotNakedFlame}

CompanyStatus(company, status) == [company |-> company, status |-> status]

S_Extended == <<"E","x","t","e","n","d","e","d">>
S_foo == <<"f","o","o">>
S_openClosed == <<"o","p","e","n","/","C","l","o","s","e","d">>
S_OnHold == <<"O","n",Space,"H","o","l","d">>

\* the example of the specification: four statuses under one company
StatsExample ==
    <<CompanyStatus(S_AB, S_Extended), CompanyStatus(S_AB, S_extend),
      CompanyStatus(S_AB, S_closed), CompanyStatus(S_AB, S_foo)>>

StatRecordPool ==
    {CompanyStatus(S_AB, st) : st \in {S_Extended, S_extend, S_closed, S_foo, S_openClosed, S_OnHold}}
        \cup {CompanyStatus(S_XY, S_foo), CompanyStatus(S_XY, S_closed), CompanyStatus(<<>>, S_closed)}

StatInputs == SeqsUpTo(StatRecordPool, MaxStatRecords) \cup {StatsExample}

\* the auth context (loading or not, a user or none, the three roles, an
\* unrecognised role, no role) and the routes (each required role, or none given)
Roles == {Str(S_viewer), Str(S_uploader), Str(S_admin)}
RouteInputs ==
    {[props |-> [requiredRole |-> required],
      auth |-> [loading |-> l, user |-> u, userRole |-> role]] :
        required \in Roles \cup {Undefined}, l \in BOOLEAN,
        u \in {Null, Str(<<"u","1">>)}, role \in Roles \cup {Str(S_guest), Null}}

MaxTypeRecords == 2

\* records by their work-type code, in both letter cases, and without one
TypedPool ==
    {[type |-> t] : t \in {S_HN, S_hn, <<"H">>, <<"h">>, <<"C">>, <<"c">>, S_HotNaked,
                           S_hotNaked, S_Cold, <<"N">>, <<>>}}
TypedInputs == SeqsUpTo(TypedPool, MaxTypeRecords)

\* the values a Day cell of a sheet can hold
DayCells ==
    DayInputs \cup {Null, Num(0), Num(86400000 * 20), Str(<<"d","A","y">>), Str(S_Night),
                    Str(<<" ","d","a","y">>), Str(<<"2","0","2","4","-","0","1">>),
                    Str(<<"1","9","7","0","-","0","1","-","0","1">>)}

\* one record for each of nine companies, more than the chart shows
NineCompanies == [i \in 1..9 |-> CompanyStatus(<<"C", DigitChars[i + 1]>>, S_foo)]

\* the n-th calendar day from 2024-01-01, as the pipeline stores it
DayN(n) == ISODate([nan |-> FALSE, time |-> DateAt(2024, 1, 1).time + (n - 1)])

Dated(day) == [day |-> day]


DayRecordPool ==
    {Dated(DayN(3)), Dated(DayN(1)), Dated(DayN(2) \o <<"T","0","8">>), Dated(S_Day),
     Dated(S_Night), Dated(<<>>)}

\* records dated over 45 distinct days, latest first
FortyFiveDays == [i \in 1..45 |-> Dated(DayN(46 - i))]

RECURSIVE Repeat(_, _)
Repeat(x, n) == IF n = 0 THEN <<>> ELSE <<x>> \o Repeat(x, n - 1)

\* n consecutive days of one record each, but a records on the last day and
\* b records on the last day of the preceding week
RECURSIVE DaysWith(_, _, _, _)
DaysWith(i, n, a, b) ==
    IF i > n THEN <<>>
    ELSE Repeat(Dated(DayN(i)), IF i = n THEN a ELSE IF i = n - 7 THEN b ELSE 1)
             \o DaysWith(i + 1, n, a, b)

ChartInputs ==
    SeqsUpTo(DayRecordPool, MaxDayRecords)
        \cup {FortyFiveDays}
        \cup {DaysWith(1, n, a, b) : n \in 0..MaxTrendDays, a \in 1..MaxDayCount, b \in 1..MaxDayCount}
        \cup {DaysWith(1, 14, a, 14) : a \in {12, 13, 15, 16}}

DayStatus(day, status) == [day |-> day, status |-> status]

\* the day the status trend is rendered
Today == DateAt(2024, 1, 20)

TrendRecordPool ==
    {DayStatus(DayN(20), S_Active), DayStatus(DayN(20), S_Open), DayStatus(DayN(7), S_Completed),
     DayStatus(DayN(6), S_Active), DayStatus(DayN(19) \o <<"T","0","8">>, S_InProgress),
     DayStatus(DayN(20), S_active), DayStatus(DayN(8), S_Cancelled), DayStatus(S_Day, S_Active),
     DayStatus(DayN(20), <<>>)}

TrendInputs == {[records |-> recs, today |-> Today] : recs \in SeqsUpTo(TrendRecordPool, MaxTrendRecords)}

Call(fn, arg) == [fn |-> fn, arg |-> arg, done |-> FALSE]

\* the call returns value
Returns(fn, value) ==
    /\ call.fn = fn
    /\ ~call.done
    /\ call' = [call EXCEPT !.done = TRUE]
    /\ ret' = value

Returned(fn) == call.fn = fn /\ call.done

CallDetermineRiskLevel == Returns("determineRiskLevel", determineRiskLevel(call.arg))

CallAnalyzeCompanyStats == Returns("analyzeCompanyStats", analyzeCompanyStats(call.arg))

CallPermitsPerDayChart ==
    /\ call.fn = "PermitsPerDayChart"
    /\ \E data \in processData(call.arg) : Returns("PermitsPerDayChart", PermitsPerDayChart(data))

\* the dashboard renders its own company tally and the chart over the same records
CallCompanyStatusChart ==
    Returns("CompanyStatusChart",
            [chart |-> CompanyStatusData(call.arg), tally |-> analyzeCompanyStats(call.arg)])

\* a cell is normalized on upload; the stored value comes back in a later sheet
CallNormalizeDay ==
    Returns("NormalizeDay",
            [once |-> NormalizeDay(call.arg), twice |-> NormalizeDay(Str(NormalizeDay(call.arg)))])

\* the dashboard computes its statistics and renders the chart over the same records
CallTypeBreakdownChart ==
    Returns("TypeBreakdownChart",
            [data |-> TypeBreakdownData(call.arg),
             riskCounts |-> riskCounts(TypeBreakdownData(call.arg)),
             workTypes |-> analyzeWorkTypes(call.arg),
             stats |-> RiskCountsOfStats(call.arg)])

CallProtectedRoute ==
    Returns("ProtectedRoute", ProtectedRoute(call.arg.props, call.arg.auth))

CallStatusTrendChart ==
    Returns("StatusTrendChart", chartData(call.arg.records, call.arg.today))

Calls ==
    {Call("determineRiskLevel", t) : t \in TypeInputs}
        \cup {Call("StatusTrendChart", a) : a \in TrendInputs}
        \cup {Call("CompanyStatusChart", recs) : recs \in StatInputs \cup {NineCompanies}}
        \cup {Call("NormalizeDay", v) : v \in DayCells}
        \cup {Call("TypeBreakdownChart", recs) : recs \in TypedInputs}
        \cup {Call("ProtectedRoute", a) : a \in RouteInputs}
        \cup {Call("PermitsPerDayChart", recs) : recs \in ChartInputs}
        \cup {Call("analyzeCompanyStats", recs) : recs \in StatInputs}

CallsInit ==
    /\ call \in Calls
    /\ ret = Null
    /\ ValidateIdle
    /\ FilterIdle
    /\ UploadIdle
    /\ HookIdle

CallsNext ==
    \/ CallDetermineRiskLevel /\ UNCHANGED <<validateVars, filterVars, uploadVars, hookVars>>
    \/ CallAnalyzeCompanyStats /\ UNCHANGED <<validateVars, filterVars, uploadVars, hookVars>>
    \/ CallPermitsPerDayChart /\ UNCHANGED <<validateVars, filterVars, uploadVars, hookVars>>
    \/ CallStatusTrendChart /\ UNCHANGED <<validateVars, filterVars, uploadVars, hookVars>>
    \/ CallCompanyStatusChart /\ UNCHANGED <<validateVars, filterVars, uploadVars, hookVars>>
    \/ CallNormalizeDay /\ UNCHANGED <<validateVars, filterVars, uploadVars, hookVars>>
    \/ CallTypeBreakdownChart /\ UNCHANGED <<validateVars, filterVars, uploadVars, hookVars>>
    \/ CallProtectedRoute /\ UNCHANGED <<validateVars, filterVars, uploadVars, hookVars>>

SpecCalls == CallsInit /\ [][CallsNext]_vars

\* s has sub as a substring
HasSub(s, sub) == \E i \in 1..(Len(s) - Len(sub) + 1) : SubSeq(s, i, i + Len(sub) - 1) = sub

\* C12: determineRiskLevel matches substrings of the lower-cased type code,
\* first match wins: 'hn' or 'hot naked' is High, else 'h' is Medium, else 'c'
\* is Low, else Medium; 'HN-1' is High, 'Hot' Medium, 'Cold' Low, '' Medium.
C12_RiskPrecedence ==
    Returned("determineRiskLevel") =>
        LET t == toLowerCase(call.arg)
        IN /\ ret = (CASE HasSub(t, S_hn) \/ HasSub(t, S_hotNaked) -> "High"
                       [] OTHER -> CASE HasSub(t, <<"h">>) -> "Medium"
                                     [] OTHER -> CASE HasSub(t, <<"c">>) -> "Low"
                                                   [] OTHER -> "Medium")
           /\ call.arg = S_HN1 => ret = "High"
           /\ call.arg = S_Hot => ret = "Medium"
           /\ call.arg = S_Cold => ret = "Low"
           /\ call.arg = <<>> => ret = "Medium"

C12_Witness == Returned("determineRiskLevel") /\ call.arg = S_HN1 /\ ret = "High"

\* the status bucket a record falls in, by case-insensitive substring, in the
\* order of precedence Extended, Closed, Planned, Open, Hold
BucketByPrecedence(status) ==
    LET st == toLowerCase(status)
    IN CASE HasSub(st, S_extend) -> "extended"
         [] HasSub(st, S_closed) \/ HasSub(st, S_completed) -> "closed"
         [] HasSub(st, S_planned) \/ HasSub(st, S_scheduled) -> "planned"
         [] HasSub(st, S_open) \/ HasSub(st, S_active) -> "open"
         [] HasSub(st, S_hold) -> "hold"
         [] OTHER -> "none"

RecordsOf(recs, company) == {i \in DOMAIN recs : recs[i].company = company}

\* C13: the company aggregation has one entry per non-empty company; the
\* entry's total is the number of that company's records, and each status
\* bucket counts the records whose status falls in it by case-insensitive
\* substring with the precedence Extended, Closed, Planned, Open, Hold, so a
\* record adds to at most one bucket and an unmatched status only to the
\* total; statuses Extended, extend, closed, foo under one company give
\* Extended 2, Closed 1 and total 4.
C13_CompanyBuckets ==
    Returned("analyzeCompanyStats") =>
        LET recs == call.arg
        IN /\ {ret[k].company : k \in DOMAIN ret} = {recs[i].company : i \in DOMAIN recs} \ {<<>>}
           /\ \A k, l \in DOMAIN ret : ret[k].company = ret[l].company => k = l
           /\ \A k \in DOMAIN ret :
                /\ ret[k].total = Cardinality(RecordsOf(recs, ret[k].company))
                /\ \A b \in {"extended", "closed", "planned", "open", "hold"} :
                     ret[k][b] = Cardinality({i \in RecordsOf(recs, ret[k].company) :
                                                BucketByPrecedence(recs[i].status) = b})
                /\ ret[k].extended + ret[k].closed + ret[k].planned + ret[k].open + ret[k].hold
                       <= ret[k].total
           /\ recs = StatsExample =>
                ret = <<[company |-> S_AB, total |-> 4, extended |-> 2, closed |-> 1,
                         planned |-> 0, open |-> 0, hold |-> 0]>>

C13_Witness ==
    /\ Returned("analyzeCompanyStats")
    /\ call.arg = StatsExample
    /\ ret[1].total = 4 /\ ret[1].extended = 2 /\ ret[1].closed = 1

\* the distinct calendar days present in the records
DaysPresent(recs) ==
    {BeforeT(recs[i].day) : i \in {k \in DOMAIN recs : ~isNaN(DateFromString(BeforeT(recs[k].day)))}}

\* the n most recent of a set of days
MostRecent(days, n) ==
    {d \in days : Cardinality({e \in days : DateFromString(e).time > DateFromString(d).time}) < n}

\* C14: the daily series has at most 30 entries, is in ascending date order,
\* and covers the most recent 30 distinct days present in the records; of
\* records dated over 45 distinct days it holds exactly the latest 30.
C14_RecentDaysAscending ==
    Returned("PermitsPerDayChart") =>
        LET data == ret.data
        IN /\ Len(data) <= SeriesWindow
           /\ \A i, j \in DOMAIN data :
                i < j => /\ ~isNaN(DateFromString(data[i].day))
                         /\ ~isNaN(DateFromString(data[j].day))
                         /\ DateFromString(data[i].day).time < DateFromString(data[j].day).time
           /\ {data[i].day : i \in DOMAIN data} = MostRecent(DaysPresent(call.arg), SeriesWindow)
           /\ call.arg = FortyFiveDays => data = [i \in 1..30 |-> [day |-> DayN(15 + i), count |-> 1]]

\* the sum of the counts of the buckets lo..hi of a series
RECURSIVE SumRange(_, _, _)
SumRange(data, lo, hi) ==
    IF lo > hi THEN 0 ELSE data[lo].count + SumRange(data, lo + 1, hi)

LastWindow(data) == SumRange(data, Max(1, Len(data) - 6), Len(data))
PrecedingWindow(data) == SumRange(data, Max(1, Len(data) - 13), Len(data) - 7)

\* C15: the trend is ((sum of the last 7 buckets - sum of the preceding 7
\* buckets) / preceding sum) * 100, and exactly 0, a finite number, whenever
\* the preceding sum is 0; a trend above +5 is shown as rising, one below -5
\* as falling, any other as flat.
C15_TrendBands ==
    Returned("PermitsPerDayChart") =>
        LET last == LastWindow(ret.data)
            preceding == PrecedingWindow(ret.data)
            tr == ret.trend
        IN /\ tr.den > 0
           /\ preceding = 0 => tr.num = 0
           /\ preceding > 0 => tr.num * preceding = (last - preceding) * 100 * tr.den
           /\ ret.color = "success" <=> tr.num > 5 * tr.den
           /\ ret.color = "error" <=> tr.num < (-5) * tr.den
           /\ ret.color = "warning" <=> (tr.num <= 5 * tr.den /\ tr.num >= (-5) * tr.den)

\* the preceding window is empty, the last 7 buckets sum to 5, the trend is 0
C15_Witness ==
    /\ Returned("PermitsPerDayChart")
    /\ PrecedingWindow(ret.data) = 0 /\ LastWindow(ret.data) = 5
    /\ ret.trend.num = 0 /\ ret.color = "warning"

\* the records whose day parses as a date
DatedOnly(recs) == SelectSeq(recs, LAMBDA r : ~isNaN(DateFromString(BeforeT(r.day))))

\* C22: only records whose day parses as a date contribute to the daily
\* series: a record whose day is the token Day or Night produces no bucket
\* and is counted neither in the series nor in its total nor in its trend, so
\* the chart shows what it shows for the dated records alone.
C22_TokensExcluded ==
    Returned("PermitsPerDayChart") =>
        /\ \A i \in DOMAIN ret.data : ~isNaN(DateFromString(ret.data[i].day))
        /\ \A i \in DOMAIN ret.data : ret.data[i].day \notin {S_Day, S_Night}
        /\ ret \in {PermitsPerDayChart(d) : d \in processData(DatedOnly(call.arg))}

\* C23: the status-trend series has exactly 14 entries, one per day of the
\* window that ends today, each with counts for exactly the labels Active,
\* Completed, In Progress and Cancelled; a count is the number of records
\* whose day is that day and whose status equals that label, so it is zero
\* when none matches and a record of any other status changes nothing.
C23_FourLabelsFourteenDays ==
    Returned("StatusTrendChart") =>
        LET recs == call.arg.records
            DayAt(j) == ISODate([nan |-> FALSE, time |-> call.arg.today.time - 14 + j])
        IN /\ Len(ret) = 14
           /\ \A j \in DOMAIN ret :
                /\ ret[j].day = DayAt(j)
                /\ DOMAIN ret[j].counts = StatusLabels
                /\ \A l \in StatusLabels \cap DOMAIN ret[j].counts :
                     ret[j].counts[l] =
                         Cardinality({i \in DOMAIN recs :
                                        BeforeT(recs[i].day) = DayAt(j) /\ recs[i].status = l})

\* the records of a company whose status matches no bucket
Unmatched(recs, company) ==
    {i \in RecordsOf(recs, company) : BucketByPrecedence(recs[i].status) = "none"}

\* C24: in the chart's company breakdown a status that matches no bucket is
\* counted in Open, so the five counts of a company sum to the number of its
\* records; the dashboard's tally of the same records leaves such a status in
\* no bucket, so its five counts sum to the total less the unmatched ones.
C24_ChartDefaultsToOpen ==
    Returned("CompanyStatusChart") =>
        LET recs == call.arg
        IN /\ \A k \in DOMAIN ret.chart :
                LET e == ret.chart[k]
                IN /\ e.Extended + e.Closed + e.Planned + e.Open + e.Hold
                          = Cardinality(RecordsOf(recs, e.company))
                   /\ e.total = Cardinality(RecordsOf(recs, e.company))
                   /\ e.Open = Cardinality({i \in RecordsOf(recs, e.company) :
                                    BucketByPrecedence(recs[i].status) \in {"open", "none"}})
           /\ \A k \in DOMAIN ret.tally :
                LET t == ret.tally[k]
                    sum == t.extended + t.closed + t.planned + t.open + t.hold
                IN /\ sum <= t.total
                   /\ t.total - sum = Cardinality(Unmatched(recs, t.company))
           /\ \A k \in DOMAIN ret.chart : \A l \in DOMAIN ret.tally :
                ret.chart[k].company = ret.tally[l].company =>
                    /\ ret.chart[k].Open
                          = ret.tally[l].open + Cardinality(Unmatched(recs, ret.tally[l].company))
                    /\ ret.chart[k].Extended = ret.tally[l].extended
                    /\ ret.chart[k].Closed = ret.tally[l].closed
                    /\ ret.chart[k].Planned = ret.tally[l].planned
                    /\ ret.chart[k].Hold = ret.tally[l].hold

\* an unmatched status: in Open for the chart, in no bucket for the dashboard
C24_Witness ==
    /\ Returned("CompanyStatusChart")
    /\ call.arg = StatsExample
    /\ ret.chart[1].Open = 1 /\ ret.chart[1].total = 4
    /\ ret.tally[1].open = 0 /\ ret.tally[1].total = 4

IsISODate(s) ==
    /\ Len(s) = 10 /\ s[5] = "-" /\ s[8] = "-"
    /\ \A i \in {1, 2, 3, 4, 6, 7, 9, 10} : IsDigit(s[i])

Paginated == mounted = "yes" /\ options.page # 0 /\ options.pageSize # 0

\* C26: with filters and pagination set, every record of the in-memory list
\* satisfies the active filters and the list is never longer than the page
\* size, whatever fetches and insert, update and delete notifications came.
C26_ListWithinFiltersAndPage ==
    Paginated =>
        /\ RunQuery(hookRecords, QueryPredicates(options.filters)) = hookRecords
        /\ Len(hookRecords) <= options.pageSize

\* C27: loading is true whenever a fetch is still in flight: a fetch that
\* settles while another fetch is pending does not set loading to false.
C27_LoadingWhileInFlight ==
    (mounted = "yes" /\ pending # {}) => loading = TRUE

\* the positions of the in-memory list that hold a record of this id
Holding(id) == {i \in DOMAIN hookRecords : hookRecords[i].id = id}

C29_ChartRiskIsDashboardRisk ==
    Returned("TypeBreakdownChart") =>
        /\ \A k \in DOMAIN ret.data :
              ret.data[k].riskLevel = determineRiskLevel(ret.data[k].name)
        /\ \A k \in DOMAIN ret.data : \A l \in DOMAIN ret.workTypes :
              ret.data[k].name = ret.workTypes[l].type =>
                  ret.data[k].riskLevel = ret.workTypes[l].riskLevel
        /\ ret.riskCounts.High = ret.stats.highRiskCount
        /\ ret.riskCounts.Medium = ret.stats.mediumRiskCount
        /\ ret.riskCounts.Low = ret.stats.lowRiskCount
        /\ ret.riskCounts.High + ret.riskCounts.Medium + ret.riskCounts.Low = Len(call.arg)

\* the place of a role in viewer < uploader < admin; 0 for anything else
RoleRank(role) ==
    IF role = Str(S_viewer) THEN 1
    ELSE IF role = Str(S_uploader) THEN 2
    ELSE IF role = Str(S_admin) THEN 3
    ELSE 0

\* C30: ProtectedRoute renders its children only when loading is finished, a
\* user is signed in and the user's role ranks at least as high as the
\* required role in viewer < uploader < admin; in every other case, a
\* missing or unrecognised role included, it renders the spinner or a
\* redirect.
C30_ChildrenOnlyWhenAuthorised ==
    Returned("ProtectedRoute") =>
        LET auth == call.arg.auth
            required == RequiredOrDefault(call.arg.props.requiredRole)
            authorised == /\ ~auth.loading
                          /\ auth.user # Null
                          /\ RoleRank(auth.userRole) > 0
                          /\ RoleRank(auth.userRole) >= RoleRank(required)
        IN /\ ret = "children" <=> authorised
           /\ ~authorised => ret \in {"spinner", "login", "dashboard"}

====
